---- MODULE Spec2Model ----
(***************************************************************************)
(* pr-analyzer: download of pull requests to a file store, the resumable   *)
(* learning pass over the stored pull requests, and the author query.      *)
(*                                                                         *)
(* Three specifications share the module:                                  *)
(*   Spec          the learning pass (processor.ProcessAllPRs) over a      *)
(*                 store that downloads fill between runs;                 *)
(*   SpecDownload  the download orchestrator (downloader.DownloadAll)      *)
(*                 followed by author queries (query.FilterByAuthors).     *)
(***************************************************************************)
EXTENDS Integers, Sequences, FiniteSets, TLC

(* ---------------------------- bounds ----------------------------------- *)
MaxPR == 3          \* pull requests are numbered 1..MaxPR in the learning pass
MaxProcessed == 4   \* a run starts only if it cannot push the processed count beyond it
MaxDPR == 2         \* pull requests of the remote repository in a download
MaxDRuns == 2       \* download runs started in one behaviour
MaxSynth == 2       \* synthesize runs in one behaviour
MaxItems == 1       \* elements of a persisted list
MaxBody == 502      \* characters of a row body that is rendered
MaxPages == 2       \* pages the server splits one list into
MaxText == 3        \* tokens of a text the generation service answers

PRNums == 1..MaxPR
DPRNums == 1..MaxDPR
AllNums == 1..(IF MaxPR > MaxDPR THEN MaxPR ELSE MaxDPR)

(* ------------------------- stored records ------------------------------ *)
\* A comment keeps the fields the three passes read: author login, type
\* discriminator, diff excerpt and creation time (seconds).
MkComment(login, type, hunk, t) ==
    [login |-> login, type |-> type, diff_hunk |-> hunk, created |-> t]

\* A review keeps author login, body and submission time.
MkReview(login, body, t) ==
    [login |-> login, body |-> body, submitted |-> t]

\* The pull-request contents the model draws from (comments, reviews).
PRContents ==
    [ none    |-> [Comments |-> << >>, Reviews |-> << >>],
      hunk    |-> [Comments |-> << MkComment("alice", "review", "@@", 2),
                                   MkComment("bob", "review", "@@", 1) >>,
                   Reviews  |-> << MkReview("alice", "looks good", 2) >>],
      revonly |-> [Comments |-> << >>,
                   Reviews  |-> << MkReview("alice", "", 1),
                                   MkReview("bob", "lgtm", 1) >>],
      issue   |-> [Comments |-> << MkComment("alice", "issue", "", 1) >>,
                   Reviews  |-> << >>] ]

Kinds == DOMAIN PRContents

\* State of one file of the store: readable, or not (absent or malformed; no
\* reader of these files tells the two apart).
FileStates == {"unreadable", "ok"}

\* The state of a PR directory: commits.json is the second file written and
\* nothing that reads it looks at what it holds, so its state is not kept.
NoDir == [dir |-> FALSE, pr |-> "unreadable",
          comments |-> "unreadable", reviews |-> "unreadable"]

FileNames == << "pr", "commits", "comments", "reviews" >>

VARIABLES
    \* ---- the store and the remote repository
    remote,       \* PR number -> kind of its contents on the server
    dfiles,       \* PR number -> state of data/pulls/{n}/ and its four files
    \* ---- learning pass
    learnings,    \* PR numbers with data/learnings/{n}.json
    diskStatus,   \* data/learnings/status.json: NoFile or a status record
    status,       \* the run's in-memory ProcessingStatus
    prNumbers,    \* the run's sorted PR numbers
    i,            \* loop index into prNumbers (1-based)
    pc,           \* "idle", "loop" (top of the for loop), "status" (line 108)
    startCursor,  \* status.LastPR as loaded at the start of the run
    loaded,       \* PR numbers passed to loadPRData in this run, in order
    sent,         \* PR numbers submitted to the generation service in this run
    outcome,      \* how the last loop iteration ended
    result,       \* what the last finished run returned
    rerun,        \* idle: the last run returned nil and nothing was downloaded
                  \* since; running: the run was started in such a state
    faults,       \* some run was interrupted or some status save failed
    \* ---- download orchestrator
    ropen,        \* the remote PRs in state open (the others are closed)
    dmeta,        \* data/metadata.json: file state and contents
    dmem,         \* the run's in-memory d.metadata
    dclient,      \* the owner and repository the run's client was made for
    allPRs,       \* the run's combined list, closed then open
    idx,          \* loop index into allPRs (1-based)
    dpc,          \* "idle" or "loop" (top of the for loop of DownloadAll)
    doutcome,     \* how the last loop iteration of the download ended
    dresult,      \* what the last finished download run returned
    druns,        \* download runs started
    clean,        \* no step of the last download run has failed
    \* ---- query
    qauthors,     \* the author set of the last query
    rows,         \* the rows the last query returned
    qresult,      \* "none", "ok" or "error"
    \* ---- synthesize
    ldir,         \* whether data/learnings exists
    lbad,         \* PR numbers whose learning file exists and does not decode
    sruns,        \* synthesize runs so far
    scalls,       \* calls to the generation service made by synthesize
    sdoc,         \* the document the service returned to the last run
    sresult,      \* how the last synthesize run ended
    styleMd,      \* contents of ./STYLE.md
    styleGuideMd, \* contents of ./STYLE_GUIDE.md
    \* ---- persistence of one entity
    kType,        \* which entity is saved and loaded
    kValue,       \* the value handed to the save
    kFile,        \* the JSON document in the file
    kLoaded,      \* the value the load produced
    kpc,          \* "idle", "new", "saved" or "loaded"
    \* ---- plain-text rendering of one row
    tBody,        \* the row's body, as bytes
    tOut,         \* the body as printed, as bytes
    tpc,          \* "idle", "in" or "out"
    \* ---- main
    mArgs,        \* the command line and the environment
    mpc,          \* "idle", "start", "work" or "exit"
    mExit,        \* the exit code
    mNet,         \* a network call has been made
    mWrote,       \* a file under the data directory was created or modified
    \* ---- fetch client
    cOp,          \* the operation in progress
    cServer,      \* endpoint -> the pages the server answers with
    cPhase,       \* the endpoint being listed
    cPage,        \* opts.Page of the next request (0: not set)
    cAcc,         \* the items accumulated so far
    cpc,          \* "idle", "wait", "call" or "done"
    cWaited,      \* a limiter wait has completed and no call was made since
    cCalls,       \* network calls issued by the operation
    cResult,      \* what the operation returned
    \* ---- extraction: one pull request sent to the generation service
    gPR,          \* number and title of the pull request
    gResp,        \* what GenerateContent answered
    gRet,         \* what ProcessPR returned
    gpc,          \* "idle", "gemini", "save", "status", "next" or "continue"
    gStatus,      \* the status in memory
    gDisk,        \* data/learnings/{n}.json and status.json
    \* ---- query: the formatted output
    fFormat,      \* the output format asked for
    fOut          \* the text FilterByAuthors returned

lvars == << learnings, diskStatus, status, prNumbers, i, pc, startCursor,
            loaded, sent, outcome, result, rerun, faults >>

dvars == << ropen, dmeta, dmem, dclient, allPRs, idx, dpc, doutcome, dresult, druns,
            clean, qauthors, rows, qresult >>

svars == << ldir, lbad, sruns, scalls, sdoc, sresult, styleMd, styleGuideMd >>

\* The variables of the commands modelled after the download, the learning
\* pass and the query.
kvars == << kType, kValue, kFile, kLoaded, kpc >>

tvars == << tBody, tOut, tpc >>

mvars == << mArgs, mpc, mExit, mNet, mWrote >>

cvars == << cOp, cServer, cPhase, cPage, cAcc, cpc, cWaited, cCalls, cResult >>

gvars == << gPR, gResp, gRet, gpc, gStatus, gDisk >>

fvars == << fFormat, fOut >>

xvars == << svars, kvars, tvars, mvars, cvars, gvars, fvars >>

vars == << remote, dfiles, lvars, dvars, xvars >>

(* ----------------------- pure helpers ---------------------------------- *)
Range(s) == { s[k] : k \in 1..Len(s) }

Max(S) == IF S = {} THEN 0 ELSE CHOOSE m \in S : \A x \in S : x <= m

\* sort.Ints: the ascending arrangement of the sequence's elements.
RECURSIVE Insert(_, _)
Insert(s, x) ==
    IF s = << >> THEN << x >>
    ELSE IF x < Head(s) THEN << x >> \o s
    ELSE << Head(s) >> \o Insert(Tail(s), x)

RECURSIVE SortInts(_)
SortInts(s) == IF s = << >> THEN << >> ELSE Insert(SortInts(Tail(s)), Head(s))

\* os.ReadDir lists entries by file name: decimal names compare as strings,
\* so "10" comes before "2".  Names are compared by their digit sequences.
RECURSIVE Digits(_)
Digits(n) == IF n < 10 THEN << n >> ELSE Digits(n \div 10) \o << n % 10 >>

RECURSIVE LexLess(_, _)
LexLess(a, b) ==
    IF a = << >> THEN b # << >>
    ELSE IF b = << >> THEN FALSE
    ELSE IF Head(a) # Head(b) THEN Head(a) < Head(b)
    ELSE LexLess(Tail(a), Tail(b))

RECURSIVE ReadDir(_)
ReadDir(S) ==
    IF S = {} THEN << >>
    ELSE LET first == CHOOSE x \in S :
                         \A y \in S \ {x} : LexLess(Digits(x), Digits(y))
         IN << first >> \o ReadDir(S \ {first})


(* ------------------ gemini: the persisted status ----------------------- *)
\* The zero ProcessingStatus (UpdatedAt is a wall-clock string no pass reads).
ZeroStatus == [TotalPRs |-> 0, ProcessedPRs |-> 0, LastPR |-> 0]

NoFile == [exists |-> FALSE, st |-> ZeroStatus]

\* LoadProcessingStatus: an absent file loads as the zero status.
LoadProcessingStatus(d) == IF d.exists THEN d.st ELSE ZeroStatus

\* The cursor a later run will resume from.
PersistedCursor == LoadProcessingStatus(diskStatus).LastPR

(* ------------------ processor: reading the store ----------------------- *)
Stored == { n \in PRNums : dfiles[n].dir }

\* getAllPRNumbers: the directory entries of data/pulls, in ReadDir order.
getAllPRNumbers == ReadDir(Stored)

\* loadJSONSlice: an absent or unreadable file leaves the slice empty.
LoadSlice(state, contents) == IF state = "ok" THEN contents ELSE << >>

loadPRData_AllMandatory(n) ==
    [ err      |-> \/ dfiles[n].pr # "ok"
                   \/ dfiles[n].comments # "ok"
                   \/ dfiles[n].reviews # "ok",
      Comments |-> LoadSlice(dfiles[n].comments, PRContents[remote[n]].Comments),
      Reviews  |-> LoadSlice(dfiles[n].reviews, PRContents[remote[n]].Reviews) ]

\* loadPRData: pr.json is mandatory, the three collections are optional.
loadPRData(n) ==
    [ err      |-> dfiles[n].pr # "ok",
      Comments |-> LoadSlice(dfiles[n].comments, PRContents[remote[n]].Comments),
      Reviews  |-> LoadSlice(dfiles[n].reviews, PRContents[remote[n]].Reviews) ]

hasDiffHunk_AnyComment(prData) == Len(prData.Comments) > 0

\* hasDiffHunk: some comment carries a non-empty diff excerpt.
hasDiffHunk(prData) ==
    \E k \in 1..Len(prData.Comments) : prData.Comments[k].diff_hunk # ""

\* The first two checks of the loop body (lines 84 and 90).
NoReviewContext(prData) == Len(prData.Comments) = 0 /\ Len(prData.Reviews) = 0

\* Lines 60-67: the index the loop starts at (1-based here, 0-based in Go).
\* When no stored number exceeds the cursor the index keeps its initial value.
StartIdx(nums, lastPR) ==
    IF lastPR > 0 /\ (\E k \in 1..Len(nums) : nums[k] > lastPR)
    THEN CHOOSE k \in 1..Len(nums) :
            /\ nums[k] > lastPR
            /\ \A j \in 1..(k - 1) : nums[j] <= lastPR
    ELSE 1

(* ------------------ downloads between learning runs -------------------- *)
\* savePRData on a new directory: MkdirAll, then pr, commits, comments and
\* reviews in that order; the first k files are written before a failure
\* (k = 4: no failure).
FilesAfterSave(k) ==
    [dir |-> TRUE,
     pr       |-> IF k >= 1 THEN "ok" ELSE "unreadable",
     comments |-> IF k >= 3 THEN "ok" ELSE "unreadable",
     reviews  |-> IF k >= 4 THEN "ok" ELSE "unreadable"]

\* Stores the learning pass cannot tell apart are the same store, and one
\* representative is kept: a file that was not written hides its contents,
\* and commits.json is loaded but never looked at.
Distinguishable(kind, k) ==
    /\ k # 2
    /\ k < 3 => kind = "none"
    /\ k = 3 => kind = "hunk"

\* A download run, between two learning runs, stores one more pull request.
DownloadAdds(n, kind, k) ==
    /\ pc = "idle"
    /\ ~dfiles[n].dir
    /\ Distinguishable(kind, k)
    /\ remote' = [remote EXCEPT ![n] = kind]
    /\ dfiles' = [dfiles EXCEPT ![n] = FilesAfterSave(k)]
    /\ rerun' = FALSE
    /\ outcome' = "-"
    /\ UNCHANGED << learnings, diskStatus, status, prNumbers, i, pc,
                    startCursor, loaded, sent, result, faults >>
    /\ UNCHANGED << dvars, xvars >>

(* ------------------ processor: ProcessAllPRs --------------------------- *)
\* Lines 41-69: load the status, list and sort the PR numbers, find the
\* start index.  The log line 68 indexes prNumbers[startIdx] whenever the
\* cursor is nonzero, which panics on an empty list.
StartRun ==
    /\ pc = "idle"
    /\ LoadProcessingStatus(diskStatus).ProcessedPRs + Cardinality(Stored)
          <= MaxProcessed
    /\ LET st   == LoadProcessingStatus(diskStatus)
           nums == SortInts(getAllPRNumbers)
       IN /\ startCursor' = st.LastPR
          /\ IF st.LastPR > 0 /\ Len(nums) = 0
             THEN /\ pc' = "idle"
                  /\ result' = "panic"
                  /\ UNCHANGED << status, prNumbers, i >>
             ELSE /\ pc' = "loop"
                  /\ result' = "running"
                  /\ status' = [st EXCEPT !.TotalPRs = Len(nums)]
                  /\ prNumbers' = nums
                  /\ i' = StartIdx(nums, st.LastPR)
    /\ loaded' = << >>
    /\ sent' = << >>
    /\ outcome' = "-"
    /\ UNCHANGED << remote, dfiles, learnings, diskStatus, rerun, faults >>
    /\ UNCHANGED << dvars, xvars >>

InLoop == pc = "loop" /\ i <= Len(prNumbers)

Cur == prNumbers[i]

\* `continue`: the iteration ends without touching status or the store.
Continue(out) ==
    /\ i' = i + 1
    /\ pc' = "loop"
    /\ outcome' = out
    /\ loaded' = Append(loaded, Cur)
    /\ UNCHANGED << remote, dfiles, learnings, diskStatus, status, prNumbers,
                    startCursor, result, rerun, faults >>
    /\ UNCHANGED << dvars, xvars >>

\* Lines 77-81: pr.json cannot be loaded.
LoadError ==
    /\ InLoop
    /\ loadPRData(Cur).err
    /\ Continue("load_error")
    /\ UNCHANGED sent

\* Lines 84-87: neither comments nor reviews.
SkipNoReviews ==
    /\ InLoop
    /\ ~loadPRData(Cur).err
    /\ NoReviewContext(loadPRData(Cur))
    /\ Continue("no_reviews")
    /\ UNCHANGED sent

\* Lines 90-93: no comment carries a diff excerpt.
SkipNoHunk ==
    /\ InLoop
    /\ ~loadPRData(Cur).err
    /\ ~NoReviewContext(loadPRData(Cur))
    /\ ~hasDiffHunk(loadPRData(Cur))
    /\ Continue("no_hunk")
    /\ UNCHANGED sent

\* The pull request reaches line 96.
ReachesGemini(n) ==
    /\ ~loadPRData(n).err
    /\ ~NoReviewContext(loadPRData(n))
    /\ hasDiffHunk(loadPRData(n))

\* The run is over: its local variables are gone.
Return(res) ==
    /\ pc' = "idle"
    /\ result' = res
    /\ status' = ZeroStatus
    /\ prNumbers' = << >>
    /\ i' = 1
    /\ loaded' = << >>
    /\ sent' = << >>
    /\ startCursor' = 0

GeminiError_Fatal ==
    /\ InLoop
    /\ ReachesGemini(Cur)
    /\ Return("error")
    /\ outcome' = "gen_error"
    /\ rerun' = FALSE
    /\ UNCHANGED << remote, dfiles, learnings, diskStatus, faults >>
    /\ UNCHANGED << dvars, xvars >>

\* Lines 96-100: the generation call fails.
GeminiError ==
    /\ InLoop
    /\ ReachesGemini(Cur)
    /\ sent' = Append(sent, Cur)
    /\ Continue("gen_error")

\* Lines 96-106: the generation call returns, SaveLearning fails (the
\* directory or the file cannot be created: nothing is written).
SaveLearningError ==
    /\ InLoop
    /\ ReachesGemini(Cur)
    /\ sent' = Append(sent, Cur)
    /\ Continue("save_error")

\* Lines 96-106: the generation call returns and the Learning is written.
SaveLearningOk ==
    /\ InLoop
    /\ ReachesGemini(Cur)
    /\ sent' = Append(sent, Cur)
    /\ loaded' = Append(loaded, Cur)
    /\ learnings' = learnings \cup {Cur}
    /\ pc' = "status"
    /\ outcome' = "learning_saved"
    /\ UNCHANGED << remote, dfiles, diskStatus, status, prNumbers, i,
                    startCursor, result, rerun, faults >>
    /\ UNCHANGED << dvars, xvars >>

\* Lines 109-111.
Advance(st, n) == [st EXCEPT !.ProcessedPRs = @ + 1, !.LastPR = n]

\* Lines 108-128: the status is updated and written.
SaveStatusOk ==
    /\ pc = "status"
    /\ status' = Advance(status, Cur)
    /\ diskStatus' = [exists |-> TRUE, st |-> status']
    /\ i' = i + 1
    /\ pc' = "loop"
    /\ outcome' = "status_saved"
    /\ UNCHANGED << remote, dfiles, learnings, prNumbers, startCursor, loaded,
                    sent, result, rerun, faults >>
    /\ UNCHANGED << dvars, xvars >>

\* Lines 108-128: the status is updated, writing it fails and is only logged
\* (the file cannot be created: the previous file stays).
SaveStatusError ==
    /\ pc = "status"
    /\ status' = Advance(status, Cur)
    /\ faults' = TRUE
    /\ i' = i + 1
    /\ pc' = "loop"
    /\ outcome' = "status_error"
    /\ UNCHANGED << remote, dfiles, learnings, diskStatus, prNumbers,
                    startCursor, loaded, sent, result, rerun >>
    /\ UNCHANGED << dvars, xvars >>

\* Lines 130-131: the loop is exhausted, the run returns nil.
FinishRun ==
    /\ pc = "loop"
    /\ i > Len(prNumbers)
    /\ Return("nil")
    /\ rerun' = TRUE
    /\ outcome' = "-"
    /\ UNCHANGED << remote, dfiles, learnings, diskStatus, faults >>
    /\ UNCHANGED << dvars, xvars >>

\* The process is interrupted (README: "you can interrupt and resume").
Interrupt ==
    /\ pc \in {"loop", "status"}
    /\ Return("killed")
    /\ rerun' = FALSE
    /\ faults' = TRUE
    /\ outcome' = "-"
    /\ UNCHANGED << remote, dfiles, learnings, diskStatus >>
    /\ UNCHANGED << dvars, xvars >>

\* The author logins that occur in the stored records.
Logins == {"alice", "bob"}

\* An empty AuthorStats map (a login without entry counts 0).
ZeroStats == [a \in Logins |-> 0]

\* The zero Metadata (LastUpdated is written and never read back).
NewMetadata == [TotalPRs |-> 0, Repository |-> "", Owner |-> "",
                AuthorStats |-> ZeroStats]

\* The repositories a download may be run for.
Targets == { [owner |-> "perbu", repo |-> "pr-analysis"],
             [owner |-> "varnish", repo |-> "cache"] }

NoClient == [owner |-> "", repo |-> ""]

\* Downloader.New: the in-memory metadata before anything is loaded.
New(owner, repo) ==
    [NewMetadata EXCEPT !.Owner = owner, !.Repository = repo]

NoMetadataFile == [state |-> "unreadable", meta |-> NewMetadata]

\* The learning pass before its first run.
LIdle ==
    /\ learnings = {}
    /\ diskStatus = NoFile
    /\ status = ZeroStatus
    /\ prNumbers = << >>
    /\ i = 1
    /\ pc = "idle"
    /\ startCursor = 0
    /\ loaded = << >>
    /\ sent = << >>
    /\ outcome = "-"
    /\ result = "none"
    /\ rerun = FALSE
    /\ faults = FALSE

\* The downloader and the query before their first run.
DIdle ==
    /\ dmeta = NoMetadataFile
    /\ dmem = NewMetadata
    /\ dclient = NoClient
    /\ allPRs = << >>
    /\ idx = 1
    /\ dpc = "idle"
    /\ doutcome = "-"
    /\ dresult = "none"
    /\ druns = 0
    /\ clean = TRUE
    /\ qauthors = {}
    /\ rows = << >>
    /\ qresult = "none"

\* No file of a style guide exists yet.
Absent == "absent"

\* Synthesize before its first run; the learning pass and the download do
\* not read these.
SIdle ==
    /\ ldir = FALSE
    /\ lbad = {}
    /\ sruns = 0
    /\ scalls = 0
    /\ sdoc = ""
    /\ sresult = "none"
    /\ styleMd = Absent
    /\ styleGuideMd = Absent

\* No entity is being saved or loaded.
KIdle ==
    /\ kType = "-"
    /\ kValue = << >>
    /\ kFile = [t |-> "null"]
    /\ kLoaded = << >>
    /\ kpc = "idle"

\* No row is being rendered.
TIdle ==
    /\ tBody = << >>
    /\ tOut = << >>
    /\ tpc = "idle"

\* The program has not been started.
MIdle ==
    /\ mArgs = << >>
    /\ mpc = "idle"
    /\ mExit = 0
    /\ mNet = FALSE
    /\ mWrote = FALSE

\* The fetch client has no operation in progress.
CIdle ==
    /\ cOp = "-"
    /\ cServer = << >>
    /\ cPhase = "-"
    /\ cPage = 0
    /\ cAcc = << >>
    /\ cpc = "idle"
    /\ cWaited = FALSE
    /\ cCalls = 0
    /\ cResult = << >>

\* No pull request is at the generation service.
GIdle ==
    /\ gPR = << >>
    /\ gResp = << >>
    /\ gRet = << >>
    /\ gpc = "idle"
    /\ gStatus = ZeroStatus
    /\ gDisk = << >>

\* No query has been formatted.
FIdle ==
    /\ fFormat = "-"
    /\ fOut = << >>

XIdle == SIdle /\ KIdle /\ TIdle /\ MIdle /\ CIdle /\ GIdle /\ FIdle

Init ==
    /\ remote = [n \in AllNums |-> "none"]
    /\ dfiles = [n \in AllNums |-> NoDir]
    /\ ropen = {}
    /\ LIdle
    /\ DIdle
    /\ XIdle

Next ==
    \/ \E n \in PRNums, kind \in Kinds, k \in 0..4 : DownloadAdds(n, kind, k)
    \/ StartRun
    \/ LoadError
    \/ SkipNoReviews
    \/ SkipNoHunk
    \/ GeminiError
    \/ SaveLearningError
    \/ SaveLearningOk
    \/ SaveStatusOk
    \/ SaveStatusError
    \/ FinishRun
    \/ Interrupt

Spec == Init /\ [][Next]_vars


(* =================== claims about the learning pass ==================== *)
\* The ascending sequence of the stored PR numbers above a cursor.
RECURSIVE Ascending(_)
Ascending(S) ==
    IF S = {} THEN << >>
    ELSE LET m == CHOOSE x \in S : \A y \in S : x <= y
         IN << m >> \o Ascending(S \ {m})

Above(c) == Ascending({ n \in Stored : n > c })

\* The comments the store holds for a pull request.
StoredComments(n) ==
    IF dfiles[n].comments = "ok" THEN PRContents[remote[n]].Comments ELSE << >>

\* No stored comment of the pull request carries a diff excerpt (this covers
\* the pull request without comments, with or without reviews).
NoDiffExcerpt(n) ==
    \A k \in 1..Len(StoredComments(n)) : StoredComments(n)[k].diff_hunk = ""

\* C1 (as claimed): resume idempotence -- a run started right after a
\* completed run, with nothing downloaded in between, whose predecessor ended
\* by processing the largest stored PR, submits no PR to the generation
\* service, writes no Learning and leaves the persisted cursor unchanged.
C1_ResumeIdempotence ==
    (pc # "idle" /\ rerun /\ startCursor = Max(Stored))
        => (sent = << >> /\ PersistedCursor = startCursor)

\* C2 (as claimed): resume correctness -- with a nonzero cursor c a run
\* considers the stored PRs above c, in ascending order, and no PR <= c.
C2_ResumeCorrectness ==
    (pc # "idle" /\ startCursor > 0)
        => /\ Len(loaded) <= Len(Above(startCursor))
           /\ loaded = SubSeq(Above(startCursor), 1, Len(loaded))

\* C3 (as claimed): the persisted cursor never decreases.
C3_CursorMonotone ==
    [][PersistedCursor' >= PersistedCursor]_vars

\* C4 (as claimed): the resume cursor equals the largest PR number fully
\* processed so far (0 if none).  Stated between loop iterations and for
\* histories without interruption or failed status save.
C4_CursorIsLargestProcessed ==
    (~faults /\ pc \in {"idle", "loop"}) => PersistedCursor = Max(learnings)

\* C5: skip policy -- an iteration over a PR none of whose stored comments
\* carries a diff excerpt (a PR without comments and reviews, a PR with
\* reviews only, a PR with plain comments only) submits nothing to the
\* generation service, writes no Learning and leaves cursor, processed count
\* and status file as they are.
C5_SkipPolicy ==
    [][(InLoop /\ NoDiffExcerpt(Cur) /\ outcome' # "-")
          => /\ sent' = sent
             /\ learnings' = learnings
             /\ status' = status
             /\ diskStatus' = diskStatus
             /\ pc' = "loop"]_vars

\* C5 witness: one run has passed over a PR without comments and reviews, a
\* PR with reviews only and a PR with a plain comment only, all files present.
C5_Witness ==
    /\ pc = "loop"
    /\ sent = << >>
    /\ \E a, b, c \in Range(loaded) :
          /\ remote[a] = "none" /\ remote[b] = "revonly" /\ remote[c] = "issue"
          /\ \A n \in {a, b, c} : dfiles[n] = FilesAfterSave(4)

\* C6 (as claimed): at any point where an interruption can strike, at most
\* one Learning on disk (the in-flight PR's) lies beyond the persisted cursor.
\* Stated for histories without earlier interruption or failed status save.
C6_AtMostInFlightLost ==
    ~faults => Cardinality({ n \in learnings : n > PersistedCursor }) <= 1

\* C7: a failed generation call or a failed Learning save for PR n is not
\* fatal -- the run stays in its loop at the next PR, which has a larger
\* number, it has not returned, and status and status file are untouched.
C7_FailureNotFatal ==
    [][(outcome' \in {"gen_error", "save_error"})
          => /\ pc' = "loop"
             /\ i' = i + 1
             /\ result' = "running"
             /\ status' = status
             /\ diskStatus' = diskStatus
             /\ prNumbers' = prNumbers
             /\ (i' <= Len(prNumbers) => prNumbers[i'] > prNumbers[i])]_vars

\* C7 witness: a run went on after a failure on PR n and fully processed a
\* later PR.
C7_Witness ==
    /\ outcome = "status_saved"
    /\ \E n \in Range(sent) : n \notin learnings /\ n < status.LastPR


(* ===================== downloader: DownloadAll ========================= *)
\* The descending sequence of a set of PR numbers (the lists are requested
\* sorted by creation, newest first).
RECURSIVE Descending(_)
Descending(S) ==
    IF S = {} THEN << >>
    ELSE << Max(S) >> \o Descending(S \ {Max(S)})

\* GetPullRequests(state) as the server answers it.
GetPullRequests(state) ==
    IF state = "open" THEN Descending(ropen) ELSE Descending(DPRNums \ ropen)

\* downloadPRData: what the four fetches return for a pull request.
downloadPRData(n) == PRContents[remote[n]]

\* loadMetadata: a readable file replaces the in-memory metadata, an absent
\* or unreadable one leaves it as New made it.
loadMetadata(file, mem) == IF file.state = "ok" THEN file.meta ELSE mem

\* The increments updateAuthorStats applies for one login.
Contribution(a, data) ==
    LET cs == data.Comments
        rs == data.Reviews
    IN Cardinality({ k \in 1..Len(cs) : cs[k].login = a })
       + Cardinality({ k \in 1..Len(rs) : rs[k].login = a /\ rs[k].body # "" })

\* updateAuthorStats: one increment per comment, one per non-empty review body.
updateAuthorStats(stats, data) ==
    [a \in Logins |-> stats[a] + Contribution(a, data)]

\* savePRData over the directory state f: MkdirAll, then the four files in
\* order.  k files are written before the failure (k = 4: none fails); the
\* failing file is left as it was (os.Create failed) or unreadable (the
\* write after os.Create failed, or there was no file).
savePRData(f, k, damage) ==
    LET W(j, old) == IF j <= k THEN "ok"
                     ELSE IF j = k + 1 /\ damage THEN "unreadable"
                     ELSE old
    IN [dir |-> TRUE,
        pr       |-> W(1, f.pr),
        comments |-> W(3, f.comments),
        reviews  |-> W(4, f.reviews)]

InDLoop == dpc = "loop" /\ idx <= Len(allPRs)

DCur == allPRs[idx]

\* The query's last answer is forgotten when a download starts.
ForgetQuery ==
    /\ qauthors' = {}
    /\ rows' = << >>
    /\ qresult' = "none"

\* Lines 34-65: directories, prior metadata, the two lists.
DStartOk ==
    /\ dpc = "idle"
    /\ druns < MaxDRuns
    /\ druns' = druns + 1
    /\ allPRs' = GetPullRequests("closed") \o GetPullRequests("open")
    /\ \E t \in Targets :
          /\ dclient' = t
          /\ dmem' = [loadMetadata(dmeta, New(t.owner, t.repo))
                        EXCEPT !.TotalPRs = Len(allPRs')]
    /\ idx' = 1
    /\ dpc' = "loop"
    /\ doutcome' = "-"
    /\ dresult' = "running"
    /\ clean' = TRUE
    /\ ForgetQuery
    /\ UNCHANGED << remote, dfiles, ropen, dmeta >>
    /\ UNCHANGED << lvars, xvars >>

\* Lines 38-60: createDirectories or one of the two list fetches fails.
DStartFail ==
    /\ dpc = "idle"
    /\ druns < MaxDRuns
    /\ druns' = druns + 1
    /\ dresult' = "error"
    /\ clean' = FALSE
    /\ doutcome' = "-"
    /\ ForgetQuery
    /\ UNCHANGED << remote, dfiles, ropen, dmeta, dmem, dclient, allPRs,
                    idx, dpc >>
    /\ UNCHANGED << lvars, xvars >>

\* `continue` in the download loop.
DContinue(out) ==
    /\ idx' = idx + 1
    /\ dpc' = "loop"
    /\ doutcome' = out
    /\ clean' = (clean /\ out = "saved")
    /\ UNCHANGED << remote, ropen, dmeta, dclient, allPRs, dresult, druns,
                    qauthors, rows, qresult >>
    /\ UNCHANGED << lvars, xvars >>

\* Lines 71-75: one of the four fetches of downloadPRData fails.
DFetchFail ==
    /\ InDLoop
    /\ DContinue("fetch_error")
    /\ UNCHANGED << dfiles, dmem >>

DSaveFail_CountsAnyway ==
    /\ InDLoop
    /\ \E k \in 0..3, damage \in BOOLEAN :
          dfiles' = [dfiles EXCEPT ![DCur] = savePRData(@, k, damage)]
    /\ dmem' = [dmem EXCEPT
                  !.AuthorStats = updateAuthorStats(@, downloadPRData(DCur))]
    /\ DContinue("save_error")

\* Lines 77-81: the fetches succeed, savePRData fails (MkdirAll, or one of
\* the four files).
DSaveFail ==
    /\ InDLoop
    /\ \/ UNCHANGED dfiles
       \/ \E k \in 0..3, damage \in BOOLEAN :
             dfiles' = [dfiles EXCEPT ![DCur] = savePRData(@, k, damage)]
    /\ DContinue("save_error")
    /\ UNCHANGED dmem

DSaveOk_SavesMetadata ==
    /\ InDLoop
    /\ dfiles' = [dfiles EXCEPT ![DCur] = savePRData(@, 4, FALSE)]
    /\ dmem' = [dmem EXCEPT
                  !.AuthorStats = updateAuthorStats(@, downloadPRData(DCur))]
    /\ idx' = idx + 1
    /\ dpc' = "loop"
    /\ doutcome' = "saved"
    /\ dmeta' = [state |-> "ok", meta |-> dmem']
    /\ UNCHANGED << remote, ropen, dclient, allPRs, dresult, druns, clean,
                    qauthors, rows, qresult >>
    /\ UNCHANGED << lvars, xvars >>

\* Lines 71-90: fetched, saved, folded into the author statistics.
DSaveOk ==
    /\ InDLoop
    /\ dfiles' = [dfiles EXCEPT ![DCur] = savePRData(@, 4, FALSE)]
    /\ dmem' = [dmem EXCEPT
                  !.AuthorStats = updateAuthorStats(@, downloadPRData(DCur))]
    /\ DContinue("saved")

\* The download run is over: its local variables are gone.
DReturn(res) ==
    /\ dpc' = "idle"
    /\ dresult' = res
    /\ doutcome' = "-"
    /\ dmem' = NewMetadata
    /\ dclient' = NoClient
    /\ allPRs' = << >>
    /\ idx' = 1

\* Lines 92-102: the metadata is written, the run returns nil.
DFinishOk ==
    /\ dpc = "loop"
    /\ idx > Len(allPRs)
    /\ dmeta' = [state |-> "ok", meta |-> dmem]
    /\ DReturn("nil")
    /\ UNCHANGED << remote, dfiles, ropen, druns, clean,
                    qauthors, rows, qresult >>
    /\ UNCHANGED << lvars, xvars >>

\* Lines 92-96: saveMetadata fails and DownloadAll returns the error.
DFinishFail ==
    /\ dpc = "loop"
    /\ idx > Len(allPRs)
    /\ \E damage \in BOOLEAN :
          dmeta' = IF damage THEN NoMetadataFile ELSE dmeta
    /\ DReturn("error")
    /\ clean' = FALSE
    /\ UNCHANGED << remote, dfiles, ropen, druns,
                    qauthors, rows, qresult >>
    /\ UNCHANGED << lvars, xvars >>


(* ===================== query: FilterByAuthors ========================== *)
\* The names a query may ask for.
Names == Logins \cup {"carol"}

\* Format("2006-01-02 15:04:05"): fixed-width, zero-padded fields, compared
\* as strings.  The stored times differ in the seconds field only.
FormatTime(t) == << (t \div 10) % 10, t % 10 >>

\* Lines 80-95: the rows of one PR's comments by the requested authors.
CommentRows(n, A) ==
    LET cs == PRContents[remote[n]].Comments
    IN { [PRNumber |-> n, Author |-> cs[k].login, CommentType |-> cs[k].type,
          CreatedAt |-> FormatTime(cs[k].created),
          URL |-> << n, "comment", k >>] :
         k \in { j \in 1..Len(cs) : cs[j].login \in A } }

\* Lines 104-117: the rows of one PR's reviews with a body by the authors.
ReviewRows(n, A) ==
    LET rs == PRContents[remote[n]].Reviews
    IN { [PRNumber |-> n, Author |-> rs[k].login, CommentType |-> "review",
          CreatedAt |-> FormatTime(rs[k].submitted),
          URL |-> << n, "review", k >>] :
         k \in { j \in 1..Len(rs) : rs[j].login \in A /\ rs[j].body # "" } }

PullDirs == { n \in AllNums : dfiles[n].dir }

\* Lines 60-118, one directory entry: each of the three loads `continue`s
\* to the next directory when it fails.
RowsOfDir(n, A) ==
    IF dfiles[n].pr # "ok" THEN {}
    ELSE IF dfiles[n].comments # "ok" THEN {}
    ELSE CommentRows(n, A)
         \cup (IF dfiles[n].reviews # "ok" THEN {} ELSE ReviewRows(n, A))

\* Lines 50-118: the rows collected over all directories.
Collect(A) == UNION { RowsOfDir(n, A) : n \in PullDirs }

\* Lines 121-126: the comparison handed to sort.Slice.
RowLess(a, b) ==
    IF a.PRNumber # b.PRNumber THEN a.PRNumber < b.PRNumber
    ELSE LexLess(a.CreatedAt, b.CreatedAt)

\* sort.Slice: an arrangement ordered by the comparison; the order of rows
\* that compare equal is not specified.
RECURSIVE SortedArrangements(_)
SortedArrangements(S) ==
    IF S = {} THEN { << >> }
    ELSE UNION { { << m >> \o r : r \in SortedArrangements(S \ {m}) } :
                 m \in { x \in S : \A y \in S : ~RowLess(y, x) } }

\* Lines 37-137 with metadata.json readable.
QueryOk(A) ==
    /\ dpc = "idle"
    /\ dmeta.state = "ok"
    /\ qauthors' = A
    /\ rows' \in SortedArrangements(Collect(A))
    /\ qresult' = "ok"
    /\ doutcome' = "-"
    /\ UNCHANGED << remote, dfiles, ropen, dmeta, dmem, dclient, allPRs,
                    idx, dpc, dresult, druns, clean >>
    /\ UNCHANGED << lvars, xvars >>

\* Lines 44-48: metadata.json cannot be loaded, the query returns an error.
QueryNoMetadata(A) ==
    /\ dpc = "idle"
    /\ dmeta.state # "ok"
    /\ qauthors' = A
    /\ rows' = << >>
    /\ qresult' = "error"
    /\ doutcome' = "-"
    /\ UNCHANGED << remote, dfiles, ropen, dmeta, dmem, dclient, allPRs,
                    idx, dpc, dresult, druns, clean >>
    /\ UNCHANGED << lvars, xvars >>

\* The contents of the remote repository's pull requests: #1 was reviewed
\* line by line, #2 has reviews only, #3 a plain comment, #4 nothing, ...
KindOf(n) == << "hunk", "revonly", "issue", "none" >>[((n - 1) % 4) + 1]

\* The author sets the queries ask for.
QuerySets == { {"alice"}, {"carol"}, {"alice", "bob"} }

\* The remote repository: every PR is open or closed.
DInit ==
    /\ remote = [n \in AllNums |-> KindOf(n)]
    /\ ropen \in SUBSET DPRNums
    /\ dfiles = [n \in AllNums |-> NoDir]
    /\ LIdle
    /\ DIdle
    /\ XIdle

DNext ==
    \/ DStartOk
    \/ DStartFail
    \/ DFetchFail
    \/ DSaveFail
    \/ DSaveOk
    \/ DFinishOk
    \/ DFinishFail
    \/ \E A \in QuerySets : QueryOk(A)
    \/ \E A \in QuerySets : QueryNoMetadata(A)

SpecDownload == DInit /\ [][DNext]_vars

(* ===================== claims on the downloader ======================== *)
\* The pull requests whose comments.json and reviews.json a download wrote
\* in full, with their pr.json.
Downloaded ==
    { n \in DPRNums : /\ dfiles[n].dir
                      /\ dfiles[n].pr = "ok"
                      /\ dfiles[n].comments = "ok"
                      /\ dfiles[n].reviews = "ok" }

RECURSIVE SumContribution(_, _)
SumContribution(a, S) ==
    IF S = {} THEN 0
    ELSE LET n == CHOOSE x \in S : TRUE
         IN Contribution(a, downloadPRData(n)) + SumContribution(a, S \ {n})

\* C8: after download runs that completed without a failure (re-runs over
\* already downloaded PRs included), the author statistics in metadata.json
\* are, for every author, the sum over the downloaded PRs of that author's
\* comments plus non-empty review bodies, each PR counted once.
C8_AuthorStatsCountOnce ==
    (dpc = "idle" /\ druns > 0 /\ clean) =>
        /\ dmeta.state = "ok"
        /\ \A a \in Logins :
              dmeta.meta.AuthorStats[a] = SumContribution(a, Downloaded)

\* C9: a PR whose fetch or save fails is skipped: the run goes on with the
\* next PR of the same list, nothing of the PR is folded into the author
\* statistics, metadata.json is untouched, and on a fetch failure no file of
\* the store is written or modified.
C9_FailedPRSkipped ==
    [][(doutcome' \in {"fetch_error", "save_error"}) =>
          /\ dpc' = "loop"
          /\ dresult' = "running"
          /\ allPRs' = allPRs
          /\ idx' = idx + 1
          /\ dmem' = dmem
          /\ dmeta' = dmeta
          /\ (doutcome' = "fetch_error" => dfiles' = dfiles)]_vars

\* A PR with comments and reviews to count has just failed, and the list
\* has a next PR to go on with.
C9_Witness ==
    /\ doutcome \in {"fetch_error", "save_error"}
    /\ InDLoop
    /\ idx > 1
    /\ Contribution("alice", downloadPRData(allPRs[idx - 1])) > 0

(* ===================== claims on the query ============================= *)
\* The rows the stored comments and reviews of the requested authors make:
\* every readable comments.json and every readable reviews.json counts.
StoredRows(A) ==
    UNION { (IF dfiles[n].comments = "ok" THEN CommentRows(n, A) ELSE {})
            \cup (IF dfiles[n].reviews = "ok" THEN ReviewRows(n, A) ELSE {}) :
            n \in PullDirs }

\* C10: for every requested author set and every content of the store,
\* directories with a missing or unreadable file included, the rows of
\* FilterByAuthors are exactly the stored comments by the authors and their
\* stored reviews with a non-empty body: none extra, none omitted, none twice.
C10_ExactRows ==
    (qresult = "ok") =>
        /\ Range(rows) = StoredRows(qauthors)
        /\ Len(rows) = Cardinality(StoredRows(qauthors))

\* The order in which the loop of FilterByAuthors appends two rows of one
\* PR directory: comments in file order, then reviews in file order.
EncounterBefore(a, b) ==
    \/ a.URL[2] = "comment" /\ b.URL[2] = "review"
    \/ a.URL[2] = b.URL[2] /\ a.URL[3] < b.URL[3]

\* C11: the rows of a query ascend by (PR number, formatted timestamp), and
\* rows that tie on both keys keep the order in which they were collected.
C11_SortedAndStable ==
    (qresult = "ok") =>
        \A j \in 1..Len(rows) : \A k \in (j + 1)..Len(rows) :
            /\ ~RowLess(rows[k], rows[j])
            /\ (~RowLess(rows[j], rows[k]) => EncounterBefore(rows[j], rows[k]))

\* C12: a failure to save metadata.json at the end of a download run is not
\* fatal: a run that got through its list returns without error, whether
\* the metadata was written or not.
C12_MetadataSaveFailureNotFatal ==
    [][(dpc = "loop" /\ dpc' = "idle") => dresult' = "nil"]_vars

\* C13: the metadata a download run persists records the owner and the
\* repository the run was given and a total equal to the length of the
\* run's combined closed-then-open list, whatever metadata.json an earlier
\* run left and however many PRs of the list failed.
C13_MetadataRecordsRun ==
    [][(dpc = "loop" /\ dpc' = "idle" /\ dresult' = "nil") =>
          /\ dmeta'.state = "ok"
          /\ dmeta'.meta.Owner = dclient.owner
          /\ dmeta'.meta.Repository = dclient.repo
          /\ dmeta'.meta.TotalPRs = Len(allPRs)]_vars


(* ===================== processor: SynthesizeStyleGuide ================= *)
\* The documents the generation service may return.
Docs == {"guide A", "guide B"}

\* A style guide file that a failed write left cut short.
Partial == "partial"

\* LoadAllLearnings on an existing directory: the entries in ReadDir order,
\* status.json and the files that do not decode left out.
LoadAllLearnings == ReadDir(learnings)

\* The frame of a synthesize run: the store, the learnings directory and
\* the other commands are not touched.
SynthFrame ==
    /\ sruns < MaxSynth
    /\ sruns' = sruns + 1
    /\ UNCHANGED << remote, dfiles, lvars, dvars, ldir, lbad >>
    /\ UNCHANGED << kvars, tvars, mvars, cvars, gvars, fvars >>

\* Part_002 lines 137-140: os.ReadDir fails, the directory does not exist.
SynthLoadFails ==
    /\ ~ldir
    /\ sresult' = "load_error"
    /\ sdoc' = ""
    /\ SynthFrame
    /\ UNCHANGED << scalls, styleMd, styleGuideMd >>

\* Lines 142-144: the directory holds no Learning that decodes.
SynthNothing ==
    /\ ldir
    /\ Len(LoadAllLearnings) = 0
    /\ sresult' = "nothing"
    /\ sdoc' = ""
    /\ SynthFrame
    /\ UNCHANGED << scalls, styleMd, styleGuideMd >>

\* Lines 155-159: the generation service fails or returns no content.
SynthGenFails ==
    /\ ldir
    /\ Len(LoadAllLearnings) > 0
    /\ scalls' = scalls + 1
    /\ sresult' = "gen_error"
    /\ sdoc' = ""
    /\ SynthFrame
    /\ UNCHANGED << styleMd, styleGuideMd >>

\* Lines 161-165: os.WriteFile fails; the file is as it was (it could not be
\* opened) or cut short (it was truncated and the write failed).
SynthWriteFails ==
    /\ ldir
    /\ Len(LoadAllLearnings) > 0
    /\ scalls' = scalls + 1
    /\ sdoc' \in Docs
    /\ styleGuideMd' \in {styleGuideMd, Partial}
    /\ sresult' = "write_error"
    /\ SynthFrame
    /\ UNCHANGED styleMd

\* Lines 134-168 without a failure: the document is written to the output
\* path of line 162.
SynthOk ==
    /\ ldir
    /\ Len(LoadAllLearnings) > 0
    /\ scalls' = scalls + 1
    /\ sdoc' \in Docs
    /\ styleGuideMd' = sdoc'
    /\ sresult' = "nil"
    /\ SynthFrame
    /\ UNCHANGED styleMd

\* The learnings directory a learning pass has left: absent, or holding any
\* learning files, readable or not, with or without status.json; and the
\* working directory with or without earlier style guides.
SInit ==
    /\ remote = [n \in AllNums |-> "none"]
    /\ dfiles = [n \in AllNums |-> NoDir]
    /\ ropen = {}
    /\ DIdle
    /\ ldir \in BOOLEAN
    /\ learnings \in SUBSET PRNums
    /\ lbad \in SUBSET (PRNums \ learnings)
    /\ diskStatus \in { NoFile,
                        [exists |-> TRUE,
                         st |-> [TotalPRs |-> 0,
                                 ProcessedPRs |-> Cardinality(learnings),
                                 LastPR |-> Max(learnings)]] }
    /\ ~ldir => (learnings = {} /\ lbad = {} /\ ~diskStatus.exists)
    /\ status = ZeroStatus
    /\ prNumbers = << >>
    /\ i = 1
    /\ pc = "idle"
    /\ startCursor = 0
    /\ loaded = << >>
    /\ sent = << >>
    /\ outcome = "-"
    /\ result = "none"
    /\ rerun = FALSE
    /\ faults = FALSE
    /\ sruns = 0
    /\ scalls = 0
    /\ sdoc = ""
    /\ sresult = "none"
    /\ styleMd \in {Absent, "old guide"}
    /\ styleGuideMd \in {Absent, "old guide"}
    /\ KIdle /\ TIdle /\ MIdle /\ CIdle /\ GIdle /\ FIdle

SNext ==
    \/ SynthLoadFails
    \/ SynthNothing
    \/ SynthGenFails
    \/ SynthWriteFails
    \/ SynthOk

SpecSynth == SInit /\ [][SNext]_vars

\* C14: a synthesize run over a store without any Learning record (the
\* learnings directory empty, holding status.json only, or absent) ends with
\* the "nothing to synthesize" condition, calls the generation service not
\* at all and writes no output document.
C14_NothingToSynthesize ==
    [][(sruns' = sruns + 1 /\ learnings = {}) =>
          /\ sresult' = "nothing"
          /\ scalls' = scalls
          /\ styleMd' = styleMd
          /\ styleGuideMd' = styleGuideMd]_vars

\* C15: a successful synthesize run leaves in ./STYLE.md exactly the
\* document the generation service returned, whatever the file held before.
C15_WritesStyleMd ==
    [][(sruns' = sruns + 1 /\ sresult' = "nil") =>
          (sdoc' \in Docs /\ styleMd' = sdoc')]_vars


(* ===================== persistence: encoding/json ====================== *)
\* Go values.  A pointer is nil or points to a value, a slice or a map is
\* nil or holds elements, a time.Time is its wall instant and, when it comes
\* from time.Now, a monotonic reading.
NilPtr(zero) == [nil |-> TRUE, v |-> zero]
Ptr(x) == [nil |-> FALSE, v |-> x]
Time(wall, mono) == [wall |-> wall, mono |-> mono]
ZeroTime == Time(0, FALSE)
NilSlice == [nil |-> TRUE, items |-> << >>]
Slice(items) == [nil |-> FALSE, items |-> items]

\* JSON values as the encoder writes them.
JNull == [t |-> "null"]
JNum(n) == [t |-> "num", v |-> n]
JStr(x) == [t |-> "str", v |-> x]
JObj(o) == [t |-> "obj", v |-> o]
JArr(a) == [t |-> "arr", v |-> a]

\* A field of a struct: Go name, JSON key, kind of its type, omitempty.
F(name, key, kind, omit) ==
    [name |-> name, key |-> key, kind |-> kind, omit |-> omit]

\* models.User and models.Branch, the structs nested in the others.
UserSchema ==
    << F("Login", "login", "str", FALSE), F("ID", "id", "int", FALSE),
       F("AvatarURL", "avatar_url", "str", FALSE),
       F("HTMLURL", "html_url", "str", FALSE), F("Type", "type", "str", FALSE) >>

BranchSchema ==
    << F("Label", "label", "str", FALSE), F("Ref", "ref", "str", FALSE),
       F("SHA", "sha", "str", FALSE) >>

PullRequestSchema ==
    << F("Number", "number", "int", FALSE), F("Title", "title", "str", FALSE),
       F("State", "state", "str", FALSE), F("Body", "body", "str", FALSE),
       F("CreatedAt", "created_at", "time", FALSE),
       F("UpdatedAt", "updated_at", "time", FALSE),
       F("ClosedAt", "closed_at", "ptrtime", TRUE),
       F("MergedAt", "merged_at", "ptrtime", TRUE),
       F("User", "user", "user", FALSE), F("Base", "base", "branch", FALSE),
       F("Head", "head", "branch", FALSE), F("URL", "url", "str", FALSE),
       F("HTMLURL", "html_url", "str", FALSE),
       F("CommentsURL", "comments_url", "str", FALSE),
       F("ReviewComments", "review_comments", "int", FALSE),
       F("Comments", "comments", "int", FALSE),
       F("Commits", "commits", "int", FALSE),
       F("Additions", "additions", "int", FALSE),
       F("Deletions", "deletions", "int", FALSE),
       F("ChangedFiles", "changed_files", "int", FALSE) >>

CommitSchema ==
    << F("SHA", "sha", "str", FALSE), F("Author", "author", "user", FALSE),
       F("Committer", "committer", "user", FALSE),
       F("Message", "message", "str", FALSE), F("URL", "url", "str", FALSE),
       F("Date", "date", "time", FALSE) >>

CommentSchema ==
    << F("ID", "id", "int", FALSE), F("Body", "body", "str", FALSE),
       F("User", "user", "user", FALSE),
       F("CreatedAt", "created_at", "time", FALSE),
       F("UpdatedAt", "updated_at", "time", FALSE),
       F("URL", "url", "str", FALSE), F("HTMLURL", "html_url", "str", FALSE),
       F("Type", "type", "str", FALSE), F("Path", "path", "str", TRUE),
       F("Position", "position", "ptrint", TRUE),
       F("Line", "line", "ptrint", TRUE),
       F("StartLine", "start_line", "ptrint", TRUE),
       F("OriginalPosition", "original_position", "ptrint", TRUE),
       F("OriginalStartLine", "original_start_line", "ptrint", TRUE),
       F("CommitID", "commit_id", "str", TRUE),
       F("OriginalCommitID", "original_commit_id", "str", TRUE),
       F("DiffHunk", "diff_hunk", "str", TRUE),
       F("InReplyToID", "in_reply_to_id", "ptrint", TRUE) >>

ReviewSchema ==
    << F("ID", "id", "int", FALSE), F("User", "user", "user", FALSE),
       F("Body", "body", "str", FALSE), F("State", "state", "str", FALSE),
       F("HTMLURL", "html_url", "str", FALSE),
       F("SubmittedAt", "submitted_at", "time", FALSE),
       F("CommitID", "commit_id", "str", FALSE) >>

MetadataSchema ==
    << F("LastUpdated", "last_updated", "time", FALSE),
       F("TotalPRs", "total_prs", "int", FALSE),
       F("Repository", "repository", "str", FALSE),
       F("Owner", "owner", "str", FALSE),
       F("AuthorStats", "author_stats", "map", FALSE) >>

LearningSchema ==
    << F("PRNumber", "pr_number", "int", FALSE),
       F("PRTitle", "pr_title", "str", FALSE),
       F("Learnings", "learnings", "strs", FALSE),
       F("Topics", "topics", "strs", FALSE),
       F("ProcessedAt", "processed_at", "str", FALSE) >>

ProcessingStatusSchema ==
    << F("TotalPRs", "total_prs", "int", FALSE),
       F("ProcessedPRs", "processed_prs", "int", FALSE),
       F("LastPR", "last_pr", "int", FALSE),
       F("UpdatedAt", "updated_at", "str", FALSE) >>

\* time.Time.MarshalJSON writes the wall instant as an RFC 3339 string (its
\* digits here); the monotonic reading is not written.
FormatRFC3339(t) == Digits(t.wall)

RECURSIVE FromDigits(_)
FromDigits(d) ==
    IF d = << >> THEN 0
    ELSE 10 * FromDigits(SubSeq(d, 1, Len(d) - 1)) + d[Len(d)]

\* time.Time.UnmarshalJSON parses the string back.
ParseRFC3339(d) == Time(FromDigits(d), FALSE)

EmptyMap == [k \in {} |-> 0]

NilMap == [nil |-> TRUE, m |-> EmptyMap]

\* The zero value of a field that holds no struct.
ZeroOf(kind) ==
    CASE kind = "int" -> 0
      [] kind = "str" -> ""
      [] kind = "time" -> ZeroTime
      [] kind = "ptrint" -> NilPtr(0)
      [] kind = "ptrtime" -> NilPtr(ZeroTime)
      [] kind = "strs" -> NilSlice
      [] kind = "map" -> NilMap

\* omitempty as a pointer sees it: empty is nil, whatever would be pointed to.
IsEmptyPtr_ZeroPointee(x) == x.nil \/ x.v = 0

IsEmptyPtr(x) == x.nil

\* encoding/json isEmptyValue: what omitempty leaves out.
IsEmptyValue(kind, x) ==
    CASE kind = "int" -> x = 0
      [] kind = "str" -> x = ""
      [] kind = "ptrint" -> IsEmptyPtr(x)
      [] kind = "ptrtime" -> x.nil
      [] kind = "strs" -> Len(x.items) = 0
      [] kind = "map" -> DOMAIN x.m = {}
      [] OTHER -> FALSE

\* Marshal of a value that is no struct.
EncScalar(kind, x) ==
    CASE kind = "int" -> JNum(x)
      [] kind = "str" -> JStr(x)
      [] kind = "time" -> JStr(FormatRFC3339(x))
      [] kind = "ptrint" -> IF x.nil THEN JNull ELSE JNum(x.v)
      [] kind = "ptrtime" -> IF x.nil THEN JNull ELSE JStr(FormatRFC3339(x.v))
      [] kind = "strs" ->
           IF x.nil THEN JNull
           ELSE JArr([k \in 1..Len(x.items) |-> JStr(x.items[k])])
      [] kind = "map" ->
           IF x.nil THEN JNull
           ELSE JObj([k \in DOMAIN x.m |-> JNum(x.m[k])])

\* Unmarshal of a JSON value into a field that holds old: null clears a
\* pointer, a slice or a map and leaves anything else alone; an object is
\* merged into an existing map.
DecScalar(kind, j, old) ==
    CASE kind = "int" -> IF j.t = "null" THEN old ELSE j.v
      [] kind = "str" -> IF j.t = "null" THEN old ELSE j.v
      [] kind = "time" -> IF j.t = "null" THEN old ELSE ParseRFC3339(j.v)
      [] kind = "ptrint" -> IF j.t = "null" THEN NilPtr(0) ELSE Ptr(j.v)
      [] kind = "ptrtime" ->
           IF j.t = "null" THEN NilPtr(ZeroTime) ELSE Ptr(ParseRFC3339(j.v))
      [] kind = "strs" ->
           IF j.t = "null" THEN NilSlice
           ELSE Slice([k \in 1..Len(j.v) |-> j.v[k].v])
      [] kind = "map" ->
           IF j.t = "null" THEN NilMap
           ELSE [nil |-> FALSE,
                 m |-> [k \in DOMAIN old.m \cup DOMAIN j.v |->
                          IF k \in DOMAIN j.v THEN j.v[k].v ELSE old.m[k]]]

\* The fields of a schema by Go name and by JSON key.
FieldNames(schema) == { schema[k].name : k \in 1..Len(schema) }

FieldOfName(schema, name) ==
    CHOOSE f \in Range(schema) : f.name = name

FieldOfKey(schema, key) ==
    CHOOSE f \in Range(schema) : f.key = key

\* The JSON keys Marshal writes for the struct value v.
KeysWritten(schema, v) ==
    { f.key : f \in { g \in Range(schema) :
                        ~(g.omit /\ IsEmptyValue(g.kind, v[g.name])) } }

\* Marshal and Unmarshal of a struct without nested structs.
EncFlat(schema, v) ==
    JObj([key \in KeysWritten(schema, v) |->
            LET f == FieldOfKey(schema, key) IN EncScalar(f.kind, v[f.name])])

DecFlat(schema, j, old) ==
    IF j.t = "null" THEN old
    ELSE [name \in FieldNames(schema) |->
            LET f == FieldOfName(schema, name)
            IN IF f.key \in DOMAIN j.v
               THEN DecScalar(f.kind, j.v[f.key], old[name])
               ELSE old[name]]

ZeroFlat(schema) ==
    [name \in FieldNames(schema) |-> ZeroOf(FieldOfName(schema, name).kind)]

NestedSchema(kind) == IF kind = "user" THEN UserSchema ELSE BranchSchema

IsStruct(kind) == kind \in {"user", "branch"}

\* Marshal and Unmarshal of the persisted structs.
EncStruct(schema, v) ==
    JObj([key \in KeysWritten(schema, v) |->
            LET f == FieldOfKey(schema, key)
            IN IF IsStruct(f.kind)
               THEN EncFlat(NestedSchema(f.kind), v[f.name])
               ELSE EncScalar(f.kind, v[f.name])])

DecStruct(schema, j, old) ==
    IF j.t = "null" THEN old
    ELSE [name \in FieldNames(schema) |->
            LET f == FieldOfName(schema, name)
            IN IF f.key \notin DOMAIN j.v THEN old[name]
               ELSE IF IsStruct(f.kind)
               THEN DecFlat(NestedSchema(f.kind), j.v[f.key], old[name])
               ELSE DecScalar(f.kind, j.v[f.key], old[name])]

ZeroStruct(schema) ==
    [name \in FieldNames(schema) |->
        LET f == FieldOfName(schema, name)
        IN IF IsStruct(f.kind) THEN ZeroFlat(NestedSchema(f.kind))
           ELSE ZeroOf(f.kind)]

\* Marshal and Unmarshal of a slice of structs (commits, comments, reviews);
\* Unmarshal into a fresh `var xs []T`.
EncSlice(schema, x) ==
    IF x.nil THEN JNull
    ELSE JArr([k \in 1..Len(x.items) |-> EncStruct(schema, x.items[k])])

DecSlice(schema, j) ==
    IF j.t = "null" THEN NilSlice
    ELSE Slice([k \in 1..Len(j.v) |-> DecStruct(schema, j.v[k], ZeroStruct(schema))])

(* ------------------ the values that are persisted ---------------------- *)
SeqsUpTo(S, n) == UNION { [1..k -> S] : k \in 0..n }

\* A list as the code builds it: nil, or the elements appended to it.
SlicesOf(S) == {NilSlice} \cup { Slice(q) : q \in SeqsUpTo(S, MaxItems) }

PtrInts == { NilPtr(0), Ptr(0), Ptr(7) }

PtrTimes == { NilPtr(ZeroTime), Ptr(Time(1234, FALSE)) }

UserValues ==
    [Login : Logins, ID : {7}, AvatarURL : {""}, HTMLURL : {"u"},
     Type : {"User"}]

BranchValues == [Label : {"perbu:main"}, Ref : {"main"}, SHA : {"abc"}]

PullRequestValues ==
    [Number : {42}, Title : {"t"}, State : {"open", "closed"},
     Body : {"", "x"}, CreatedAt : {Time(1205, FALSE)},
     UpdatedAt : {Time(1234, FALSE)}, ClosedAt : PtrTimes,
     MergedAt : PtrTimes, User : UserValues, Base : BranchValues,
     Head : BranchValues, URL : {"u"}, HTMLURL : {"h"}, CommentsURL : {"c"},
     ReviewComments : {0, 7}, Comments : {0}, Commits : {1},
     Additions : {7}, Deletions : {0}, ChangedFiles : {1}]

CommitValues ==
    [SHA : {"abc"}, Author : UserValues, Committer : UserValues,
     Message : {"", "fix"}, URL : {"u"}, Date : {Time(1234, FALSE)}]

CommentValues ==
    [ID : {7}, Body : {"nit"}, User : UserValues,
     CreatedAt : {Time(1234, FALSE)}, UpdatedAt : {Time(1234, FALSE)},
     URL : {"u"}, HTMLURL : {"h"}, Type : {"review"}, Path : {"", "a.go"},
     Position : {NilPtr(0)}, Line : PtrInts, StartLine : PtrInts,
     OriginalPosition : {Ptr(7)}, OriginalStartLine : {NilPtr(0)},
     CommitID : {"abc"}, OriginalCommitID : {""}, DiffHunk : {"", "@@"},
     InReplyToID : {NilPtr(0), Ptr(0)}]

ReviewValues ==
    [ID : {7}, User : UserValues, Body : {"", "lgtm"}, State : {"APPROVED"},
     HTMLURL : {"h"}, SubmittedAt : {Time(1234, FALSE)}, CommitID : {"abc"}]

\* The metadata a download saves: LastUpdated is time.Now(), the map is the
\* one New made.
MetadataValues ==
    [LastUpdated : {Time(1234, TRUE)}, TotalPRs : {0, 7},
     Repository : {"pr-analysis"}, Owner : {"perbu"},
     AuthorStats : { [nil |-> FALSE, m |-> EmptyMap],
                     [nil |-> FALSE, m |-> [a \in {"alice"} |-> 7]],
                     [nil |-> FALSE, m |-> [a \in Logins |-> 0]] }]

StringLists == { NilSlice, Slice(<< >>), Slice(<< "use early returns" >>),
                 Slice(<< "", "x" >>) }

LearningValues ==
    [PRNumber : {42}, PRTitle : {"t"}, Learnings : StringLists,
     Topics : StringLists, ProcessedAt : {"", "2025-01-02T15:04:05Z"}]

ProcessingStatusValues ==
    [TotalPRs : {0, 7}, ProcessedPRs : {0, 7}, LastPR : {0, 42},
     UpdatedAt : {"", "2025-01-02T15:04:05Z"}]

EntityTypes ==
    {"pr", "commits", "comments", "reviews", "metadata", "learning", "status"}

IsList(type) == type \in {"commits", "comments", "reviews"}

SchemaOf(type) ==
    CASE type = "pr" -> PullRequestSchema
      [] type = "commits" -> CommitSchema
      [] type = "comments" -> CommentSchema
      [] type = "reviews" -> ReviewSchema
      [] type = "metadata" -> MetadataSchema
      [] type = "learning" -> LearningSchema
      [] type = "status" -> ProcessingStatusSchema

ValuesOf(type) ==
    CASE type = "pr" -> PullRequestValues
      [] type = "commits" -> SlicesOf(CommitValues)
      [] type = "comments" -> SlicesOf(CommentValues)
      [] type = "reviews" -> SlicesOf(ReviewValues)
      [] type = "metadata" -> MetadataValues
      [] type = "learning" -> LearningValues
      [] type = "status" -> ProcessingStatusValues

(* ------------------ saving and loading one entity ---------------------- *)
\* json.NewEncoder(file).Encode(data) of saveJSON, SaveLearning and
\* SaveProcessingStatus.
Encode(type, x) ==
    IF IsList(type) THEN EncSlice(SchemaOf(type), x)
    ELSE EncStruct(SchemaOf(type), x)

\* json.NewDecoder(file).Decode(&v) into a fresh variable: the loaders of
\* the processor and of the query, LoadProcessingStatus, LoadAllLearnings.
Decode(type, j) ==
    IF IsList(type) THEN DecSlice(SchemaOf(type), j)
    ELSE DecStruct(SchemaOf(type), j, ZeroStruct(SchemaOf(type)))

\* The d.metadata of a Downloader that New has just made.
NewInMemory(t) ==
    [LastUpdated |-> ZeroTime, TotalPRs |-> 0, Repository |-> t.repo,
     Owner |-> t.owner, AuthorStats |-> [nil |-> FALSE, m |-> EmptyMap]]

KFrame ==
    /\ UNCHANGED << remote, dfiles, lvars, dvars >>
    /\ UNCHANGED << svars, tvars, mvars, cvars, gvars, fvars >>

\* saveJSON / SaveLearning / SaveProcessingStatus write the entity.
KSave ==
    /\ kpc = "new"
    /\ kFile' = Encode(kType, kValue)
    /\ kpc' = "saved"
    /\ UNCHANGED << kType, kValue, kLoaded >>
    /\ KFrame

\* The file is loaded into a fresh variable.
KLoad ==
    /\ kpc = "saved"
    /\ kLoaded' = Decode(kType, kFile)
    /\ kpc' = "loaded"
    /\ UNCHANGED << kType, kValue, kFile >>
    /\ KFrame

\* Downloader.loadMetadata decodes metadata.json into the d.metadata of New.
KLoadMetadata ==
    /\ kpc = "saved"
    /\ kType = "metadata"
    /\ \E t \in Targets :
          kLoaded' = DecStruct(MetadataSchema, kFile, NewInMemory(t))
    /\ kpc' = "loaded"
    /\ UNCHANGED << kType, kValue, kFile >>
    /\ KFrame

KInit ==
    /\ remote = [n \in AllNums |-> "none"]
    /\ dfiles = [n \in AllNums |-> NoDir]
    /\ ropen = {}
    /\ LIdle /\ DIdle /\ SIdle /\ TIdle /\ MIdle /\ CIdle /\ GIdle /\ FIdle
    /\ kType \in EntityTypes
    /\ kValue \in ValuesOf(kType)
    /\ kFile = JNull
    /\ kLoaded = << >>
    /\ kpc = "new"

KNext == KSave \/ KLoad \/ KLoadMetadata

SpecCodec == KInit /\ [][KNext]_vars

\* time.Time.Equal: the same instant.
SameTime(a, b) == a.wall = b.wall

\* Two values of a struct agree field for field.
SameStruct(schema, a, b) ==
    \A f \in Range(schema) :
        CASE f.kind = "time" -> SameTime(a[f.name], b[f.name])
          [] f.kind = "ptrtime" ->
               /\ a[f.name].nil = b[f.name].nil
               /\ SameTime(a[f.name].v, b[f.name].v)
          [] OTHER -> a[f.name] = b[f.name]

SameValue(type, a, b) ==
    IF IsList(type)
    THEN /\ a.nil = b.nil
         /\ Len(a.items) = Len(b.items)
         /\ \A k \in 1..Len(a.items) :
               SameStruct(SchemaOf(type), a.items[k], b.items[k])
    ELSE SameStruct(SchemaOf(type), a, b)

\* C16: for every entity type, the value loaded from a file equals field
\* for field the value that was saved to it: a nil pointer loads as nil, a
\* pointer to 0 as a pointer to 0.
C16_RoundTrip ==
    (kpc = "loaded") => SameValue(kType, kValue, kLoaded)

\* Comments were saved and loaded, one with line 0 and no start line.
C16_Witness ==
    /\ kpc = "loaded"
    /\ kType = "comments"
    /\ \E k \in 1..Len(kLoaded.items) :
          /\ kLoaded.items[k].Line = Ptr(0)
          /\ kLoaded.items[k].StartLine = NilPtr(0)


(* ===================== query: formatStdout ============================= *)
\* Line 299: a body of more bytes than this is cut.
TruncateOver == 500

\* Line 300: the bytes of the body that are kept.
KeptBytes == 497

\* "..." in bytes.
Ellipsis == << 46, 46, 46 >>

\* A Go string is its UTF-8 bytes: "a" is one byte, "é" is two.
AsciiBody(n) == [k \in 1..n |-> 97]

AccentedBody(n) == [k \in 1..(2 * n) |-> IF k % 2 = 1 THEN 195 ELSE 169]

\* The bodies rendered: n characters, all "a" or all "é".
Bodies ==
    { AsciiBody(n) : n \in 0..MaxBody } \cup { AccentedBody(n) : n \in 1..MaxBody }

\* Lines 297-303: len(body) and body[:497] count bytes.
Truncate(b) ==
    IF Len(b) > TruncateOver THEN SubSeq(b, 1, KeptBytes) \o Ellipsis ELSE b

TFrame ==
    /\ UNCHANGED << remote, dfiles, lvars, dvars >>
    /\ UNCHANGED << svars, kvars, mvars, cvars, gvars, fvars >>

\* formatStdout prints the body of one row.
TRender ==
    /\ tpc = "in"
    /\ tOut' = Truncate(tBody)
    /\ tpc' = "out"
    /\ UNCHANGED tBody
    /\ TFrame

TInit ==
    /\ remote = [n \in AllNums |-> "none"]
    /\ dfiles = [n \in AllNums |-> NoDir]
    /\ ropen = {}
    /\ LIdle /\ DIdle /\ SIdle /\ KIdle /\ MIdle /\ CIdle /\ GIdle /\ FIdle
    /\ tBody \in Bodies
    /\ tOut = << >>
    /\ tpc = "in"

TNext == TRender

SpecRender == TInit /\ [][TNext]_vars

\* The characters of a UTF-8 byte string: every byte that is not a
\* continuation byte starts one.
RuneCount(b) == Cardinality({ k \in 1..Len(b) : b[k] < 128 \/ b[k] > 191 })

\* C17: a body of at most 500 characters is printed as it is; a longer one
\* is printed as 500 characters, the last three the ellipsis marker and the
\* ones before a prefix of the body.
C17_Truncation ==
    (tpc = "out") =>
        IF RuneCount(tBody) <= 500 THEN tOut = tBody
        ELSE /\ RuneCount(tOut) = 500
             /\ Len(tOut) >= 3
             /\ SubSeq(tOut, Len(tOut) - 2, Len(tOut)) = Ellipsis
             /\ SubSeq(tOut, 1, Len(tOut) - 3)
                  = SubSeq(tBody, 1, Len(tOut) - 3)


(* ===================== main ============================================ *)
Commands == {"download", "query", "process-prs", "synthesize"}

\* The command line and the environment: the subcommand ("" when there is
\* none), whether the flags parse, and which inputs are given non-empty.
ArgSets ==
    [cmd : Commands \cup {"", "bogus"}, flagsParse : BOOLEAN,
     tokenFlag : BOOLEAN, tokenEnv : BOOLEAN, owner : BOOLEAN,
     repo : BOOLEAN, authors : BOOLEAN, keyFlag : BOOLEAN, keyEnv : BOOLEAN]

RequiredGiven_NoRepoTest(a) ==
    CASE a.cmd = "download" -> (a.tokenFlag \/ a.tokenEnv) /\ a.owner
      [] a.cmd = "query" -> a.authors
      [] a.cmd \in {"process-prs", "synthesize"} -> a.keyFlag \/ a.keyEnv
      [] OTHER -> FALSE

\* Lines 51-62, 74-76, 86-91, 112-117: the tests before each log.Fatal.
RequiredGiven(a) ==
    CASE a.cmd = "download" ->
           (a.tokenFlag \/ a.tokenEnv) /\ a.owner /\ a.repo
      [] a.cmd = "query" -> a.authors
      [] a.cmd \in {"process-prs", "synthesize"} -> a.keyFlag \/ a.keyEnv
      [] OTHER -> FALSE

MFrame ==
    /\ UNCHANGED << remote, dfiles, lvars, dvars >>
    /\ UNCHANGED << svars, kvars, tvars, cvars, gvars, fvars >>

\* os.Exit / log.Fatal: the program ends with the code, nothing else done.
MExitWith(code) ==
    /\ mpc' = "exit"
    /\ mExit' = code
    /\ UNCHANGED << mArgs, mNet, mWrote >>
    /\ MFrame

\* Lines 39-47: no subcommand, usage is printed.
MUsage ==
    /\ mpc = "start"
    /\ mArgs.cmd = ""
    /\ MExitWith(1)

\* Lines 139-142: the subcommand is none of the four.
MUnknown ==
    /\ mpc = "start"
    /\ mArgs.cmd = "bogus"
    /\ MExitWith(1)

\* flag.ExitOnError: the subcommand's flags do not parse.
MFlagError ==
    /\ mpc = "start"
    /\ mArgs.cmd \in Commands
    /\ ~mArgs.flagsParse
    /\ MExitWith(2)

\* A required input is empty: log.Fatal.
MMissing ==
    /\ mpc = "start"
    /\ mArgs.cmd \in Commands
    /\ mArgs.flagsParse
    /\ ~RequiredGiven(mArgs)
    /\ MExitWith(1)

\* The inputs are there: the command's work starts.
MRun ==
    /\ mpc = "start"
    /\ mArgs.cmd \in Commands
    /\ mArgs.flagsParse
    /\ RequiredGiven(mArgs)
    /\ mpc' = "work"
    /\ UNCHANGED << mArgs, mExit, mNet, mWrote >>
    /\ MFrame

\* The command runs: download and process-prs call the network and write
\* under the data directory, synthesize calls the network, query does
\* neither; the command succeeds or fails.
MWork ==
    /\ mpc = "work"
    /\ mNet' \in IF mArgs.cmd = "query" THEN {FALSE} ELSE BOOLEAN
    /\ mWrote' \in IF mArgs.cmd \in {"download", "process-prs"}
                   THEN BOOLEAN ELSE {FALSE}
    /\ mExit' \in {0, 1}
    /\ mpc' = "exit"
    /\ UNCHANGED mArgs
    /\ MFrame

MInit ==
    /\ remote = [n \in AllNums |-> "none"]
    /\ dfiles = [n \in AllNums |-> NoDir]
    /\ ropen = {}
    /\ LIdle /\ DIdle /\ SIdle /\ KIdle /\ TIdle /\ CIdle /\ GIdle /\ FIdle
    /\ mArgs \in ArgSets
    /\ mpc = "start"
    /\ mExit = 0
    /\ mNet = FALSE
    /\ mWrote = FALSE

MNext == MUsage \/ MUnknown \/ MFlagError \/ MMissing \/ MRun \/ MWork

SpecMain == MInit /\ [][MNext]_vars

\* What the program requires: a known subcommand; for download a GitHub
\* credential, an owner and a repository; for query the authors; for
\* process-prs and synthesize a generation-service credential.
InputMissing(a) ==
    \/ a.cmd \notin Commands
    \/ a.cmd = "download" /\ ~(a.tokenFlag \/ a.tokenEnv)
    \/ a.cmd = "download" /\ ~a.owner
    \/ a.cmd = "download" /\ ~a.repo
    \/ a.cmd = "query" /\ ~a.authors
    \/ a.cmd \in {"process-prs", "synthesize"} /\ ~(a.keyFlag \/ a.keyEnv)

Ops == {"prs", "details", "commits", "comments", "reviews"}

EndpointsOf(op) ==
    CASE op = "prs" -> << "pulls" >>
      [] op = "details" -> << "pull" >>
      [] op = "commits" -> << "pull_commits" >>
      [] op = "comments" -> << "issue_comments", "review_comments" >>
      [] op = "reviews" -> << "pull_reviews" >>

Endpoints ==
    {"pulls", "pull", "pull_commits", "issue_comments", "review_comments",
     "pull_reviews"}

\* The items of the server, and the pages it may answer one list with: at
\* least one page, each with the items in the server's order.
ItemIds == {1, 2}

PageContents == { << >>, << 1 >>, << 2 >>, << 1, 2 >>, << 2, 1 >> }

PageLists == UNION { [1..k -> PageContents] : k \in 1..MaxPages }

\* The model value the client makes of a server item: convertPR and the
\* struct literals of the list loops; comments get their type.
Convert(endpoint, item) ==
    [id |-> item,
     type |-> CASE endpoint = "issue_comments" -> "issue"
                [] endpoint = "review_comments" -> "review"
                [] OTHER -> ""]

ConvertAll(endpoint, items) ==
    [k \in 1..Len(items) |-> Convert(endpoint, items[k])]

\* The server's answer to the request for a page (0: the first page): the
\* page and the next-page indicator, 0 after the last page.
Respond(endpoint, page) ==
    LET p == IF page = 0 THEN 1 ELSE page
    IN [items |-> cServer[endpoint][p],
        NextPage |-> IF p < Len(cServer[endpoint]) THEN p + 1 ELSE 0]

Accumulate_KeepsLastPage(acc, endpoint, items) == ConvertAll(endpoint, items)

\* all = append(all, converted) for every item of the page.
Accumulate(acc, endpoint, items) == acc \o ConvertAll(endpoint, items)

CFrame ==
    /\ UNCHANGED << remote, dfiles, lvars, dvars >>
    /\ UNCHANGED << svars, kvars, tvars, mvars, gvars, fvars >>

\* The text the error is wrapped in: fmt.Errorf("rate limiter error: %w")
\* after a failed wait, fmt.Errorf("failed to ...: %w") after a failed request.
ErrorText(err) ==
    IF ~err THEN ""
    ELSE IF cpc = "wait" THEN "rate limiter error" ELSE "failed to"

\* The operation returns.
CReturn(err, items) ==
    /\ cpc' = "done"
    /\ cResult' = [err |-> err, items |-> items, msg |-> ErrorText(err)]

\* The endpoint the operation lists after the current one, "" if none.
NextPhase ==
    LET es == EndpointsOf(cOp)
        k == CHOOSE j \in 1..Len(es) : es[j] = cPhase
    IN IF k < Len(es) THEN es[k + 1] ELSE ""

\* c.limiter.Wait(ctx) returns nil.
CWait ==
    /\ cpc = "wait"
    /\ cWaited' = TRUE
    /\ cpc' = "call"
    /\ UNCHANGED << cOp, cServer, cPhase, cPage, cAcc, cCalls, cResult >>
    /\ CFrame

\* c.limiter.Wait(ctx) returns an error: the operation returns it.
CWaitFails ==
    /\ cpc = "wait"
    /\ CReturn(TRUE, << >>)
    /\ UNCHANGED << cOp, cServer, cPhase, cPage, cAcc, cWaited, cCalls >>
    /\ CFrame

CCallFails_ReturnsPartial ==
    /\ cpc = "call"
    /\ cCalls' = cCalls + 1
    /\ cWaited' = FALSE
    /\ CReturn(TRUE, cAcc)
    /\ UNCHANGED << cOp, cServer, cPhase, cPage, cAcc >>
    /\ CFrame

\* The request fails: the operation returns the error.
CCallFails ==
    /\ cpc = "call"
    /\ cCalls' = cCalls + 1
    /\ cWaited' = FALSE
    /\ CReturn(TRUE, << >>)
    /\ UNCHANGED << cOp, cServer, cPhase, cPage, cAcc >>
    /\ CFrame

CCallOk_WaitsOnce ==
    /\ cpc = "call"
    /\ cCalls' = cCalls + 1
    /\ cWaited' = FALSE
    /\ LET resp == Respond(cPhase, cPage)
       IN /\ cAcc' = Accumulate(cAcc, cPhase, resp.items)
          /\ IF resp.NextPage # 0
             THEN /\ cPage' = resp.NextPage
                  /\ cpc' = "call"
                  /\ UNCHANGED << cPhase, cResult >>
             ELSE IF NextPhase # ""
             THEN /\ cPhase' = NextPhase
                  /\ cPage' = 0
                  /\ cpc' = "wait"
                  /\ UNCHANGED cResult
             ELSE /\ CReturn(FALSE, cAcc')
                  /\ UNCHANGED << cPhase, cPage >>
    /\ UNCHANGED << cOp, cServer >>
    /\ CFrame

\* The request succeeds: the page is appended; the loop goes on with the
\* next page, or ends at NextPage == 0, and GetPRComments goes on with the
\* review comments after the issue comments.
CCallOk ==
    /\ cpc = "call"
    /\ cCalls' = cCalls + 1
    /\ cWaited' = FALSE
    /\ LET resp == Respond(cPhase, cPage)
       IN /\ cAcc' = Accumulate(cAcc, cPhase, resp.items)
          /\ IF resp.NextPage # 0
             THEN /\ cPage' = resp.NextPage
                  /\ cpc' = "wait"
                  /\ UNCHANGED << cPhase, cResult >>
             ELSE IF NextPhase # ""
             THEN /\ cPhase' = NextPhase
                  /\ cPage' = 0
                  /\ cpc' = "wait"
                  /\ UNCHANGED cResult
             ELSE /\ CReturn(FALSE, cAcc')
                  /\ UNCHANGED << cPhase, cPage >>
    /\ UNCHANGED << cOp, cServer >>
    /\ CFrame

\* The servers an operation can meet: one item for a single Get, any pages
\* for each list the operation reads, nothing at the other endpoints.
NoPages == [e \in Endpoints |-> << >>]

ServersOf(op) ==
    CASE op = "details" ->
             { [NoPages EXCEPT !["pull"] = << << n >> >>] : n \in ItemIds }
      [] op = "comments" ->
             { [NoPages EXCEPT !["issue_comments"] = a,
                               !["review_comments"] = b] :
                   a \in PageLists, b \in PageLists }
      [] OTHER ->
             { [NoPages EXCEPT ![EndpointsOf(op)[1]] = a] : a \in PageLists }

\* An operation has been called: the server holds one item for a single
\* Get, and any pages for a list.
CInit ==
    /\ remote = [n \in AllNums |-> "none"]
    /\ dfiles = [n \in AllNums |-> NoDir]
    /\ ropen = {}
    /\ LIdle /\ DIdle /\ SIdle /\ KIdle /\ TIdle /\ MIdle /\ GIdle /\ FIdle
    /\ cOp \in Ops
    /\ cServer \in ServersOf(cOp)
    /\ cPhase = EndpointsOf(cOp)[1]
    /\ cPage = 0
    /\ cAcc = << >>
    /\ cpc = "wait"
    /\ cWaited = FALSE
    /\ cCalls = 0
    /\ cResult = [err |-> FALSE, items |-> << >>, msg |-> ""]

CNext == CWait \/ CWaitFails \/ CCallFails \/ CCallOk

SpecClient == CInit /\ [][CNext]_vars

\* All the items the server holds at an endpoint, page after page.
RECURSIVE Flatten(_)
Flatten(pages) ==
    IF pages = << >> THEN << >> ELSE Head(pages) \o Flatten(Tail(pages))

\* What an operation has to return: the converted items of every endpoint
\* it reads, endpoint after endpoint, in the server's order.
RECURSIVE ExpectedOf(_)
ExpectedOf(es) ==
    IF es = << >> THEN << >>
    ELSE ConvertAll(Head(es), Flatten(cServer[Head(es)]))
             \o ExpectedOf(Tail(es))

\* The pages the server holds at the endpoints of an operation.
RECURSIVE PagesOf(_)
PagesOf(es) ==
    IF es = << >> THEN 0 ELSE Len(cServer[Head(es)]) + PagesOf(Tail(es))

\* C19: a list operation that returns without error has requested every
\* page of the server exactly once, up to the first response whose next-page
\* indicator is 0, and returns the items of all pages in the server's order,
\* none dropped, duplicated or reordered; GetPRComments returns all issue
\* comments followed by all review comments.
C19_AllPagesInOrder ==
    (cpc = "done" /\ ~cResult.err /\ cOp # "details") =>
        /\ cResult.items = ExpectedOf(EndpointsOf(cOp))
        /\ cCalls = PagesOf(EndpointsOf(cOp))

\* GetPRComments has returned from a server with two pages of issue
\* comments and two pages of review comments, all non-empty.
C19_Witness ==
    /\ cpc = "done" /\ ~cResult.err /\ cOp = "comments"
    /\ Len(cServer["issue_comments"]) >= 2
    /\ Len(cServer["review_comments"]) >= 2
    /\ \A e \in {"issue_comments", "review_comments"} :
           \A k \in 1..Len(cServer[e]) : cServer[e][k] # << >>
    /\ cResult.items[1].type = "issue"
    /\ cResult.items[Len(cResult.items)].type = "review"

\* C20: every network call of the client, each page request included, is
\* made right after a successfully completed wait on the rate limiter that
\* no other call has used.
C20_WaitBeforeEveryCall ==
    [][(cCalls' # cCalls) =>
           /\ cWaited /\ cpc = "call"
           /\ cCalls' = cCalls + 1
           /\ ~cWaited']_vars

\* The client has made the request for a second page, after its own wait.
C20_Witness == cCalls >= 2 /\ cPage >= 2 /\ ~cWaited /\ cpc # "call"

\* C21: when a limiter wait is cancelled or a request fails on any page, the
\* operation returns an error (the rate limiter's error being told apart
\* from a request's), returns none of the pages already fetched, and makes
\* no further request: a failed request is not tried again.
C21_FailureReturnsNothing ==
    [][/\ (cpc = "wait" /\ cpc' # "wait" /\ ~cWaited') =>
              /\ cpc' = "done" /\ cResult'.err
              /\ cResult'.items = << >>
              /\ cResult'.msg = "rate limiter error"
              /\ cCalls' = cCalls
       /\ (cpc = "call" /\ cCalls' # cCalls /\ ~CCallOk) =>
              /\ cpc' = "done" /\ cResult'.err
              /\ cResult'.items = << >>
              /\ cResult'.msg = "failed to"
              /\ cCalls' = cCalls + 1
       /\ (cpc = "done") => (cCalls' = cCalls /\ cResult' = cResult)]_vars

\* The request for the second page of review comments failed after the
\* issue comments and a page of review comments had been fetched.
C21_Witness ==
    /\ cpc = "done" /\ cResult.err /\ cResult.msg = "failed to"
    /\ cOp = "comments" /\ cPhase = "review_comments" /\ cPage = 2
    /\ cAcc # << >>
    /\ cCalls >= 3


(* ===================== downloader: an interrupted run ================== *)
\* The process is killed inside the download loop (lines 67-90), between
\* two pull requests or while savePRData writes the files of the current
\* one: the files written so far stay, the in-memory metadata is lost.
DInterrupt ==
    /\ InDLoop
    /\ \/ UNCHANGED dfiles
       \/ \E k \in 0..3, damage \in BOOLEAN :
             dfiles' = [dfiles EXCEPT ![DCur] = savePRData(@, k, damage)]
    /\ DReturn("killed")
    /\ clean' = FALSE
    /\ UNCHANGED << remote, ropen, dmeta, druns, qauthors, rows, qresult >>
    /\ UNCHANGED << lvars, xvars >>

\* Download runs that may be interrupted.
DKNext ==
    \/ DStartOk
    \/ DStartFail
    \/ DFetchFail
    \/ DSaveFail
    \/ DSaveOk
    \/ DFinishOk
    \/ DFinishFail
    \/ DInterrupt

SpecDownloadKilled == DInit /\ [][DKNext]_vars

\* The pull requests the run has handled so far.
Handled == { allPRs[k] : k \in 1..(idx - 1) }

\* C22: a download run handles the pull requests of the combined list
\* (closed, then open) one after another in list order, each step touching
\* the files of the current pull request only; metadata.json is written in
\* one step only, after the last pull request of the list, and that step
\* ends the run; an interrupted run leaves metadata.json as it was and the
\* files of the pull requests it had handled as they were.
C22_OneByOneMetadataLast ==
    [][/\ (dpc = "idle" /\ dpc' = "loop") =>
              /\ allPRs' = Descending(DPRNums \ ropen) \o Descending(ropen)
              /\ idx' = 1
              /\ dmeta' = dmeta /\ dfiles' = dfiles
       /\ (dpc = "loop" /\ dpc' = "loop") =>
              /\ idx <= Len(allPRs) /\ idx' = idx + 1
              /\ allPRs' = allPRs
              /\ dmeta' = dmeta
              /\ \A n \in AllNums \ {allPRs[idx]} : dfiles'[n] = dfiles[n]
       /\ (dmeta' # dmeta) =>
              /\ dpc = "loop" /\ idx = Len(allPRs) + 1 /\ dpc' = "idle"
              /\ dfiles' = dfiles
       /\ (dpc = "loop" /\ dresult' = "killed") =>
              /\ dmeta' = dmeta
              /\ \A n \in Handled : dfiles'[n] = dfiles[n]]_vars

\* The first run was interrupted after it had saved a pull request: the
\* files are there and there is no metadata.json.
C22_Witness ==
    /\ druns = 1 /\ dresult = "killed" /\ dpc = "idle"
    /\ Downloaded # {}
    /\ dmeta = NoMetadataFile


(* ===================== gemini: ProcessPR =============================== *)
\* The texts of the generation service, as sequences of tokens: an opening
\* brace, a closing brace, the member "learnings":["l"], and anything else.
Tokens == {"{", "}", "L", "x"}

Texts == UNION { [1..n -> Tokens] : n \in 0..MaxText }

\* GenerateContent: an error, an answer without candidates, or a text.
Responses ==
    {[err |-> TRUE, cands |-> 0, text |-> << >>],
     [err |-> FALSE, cands |-> 0, text |-> << >>]}
    \cup { [err |-> FALSE, cands |-> 1, text |-> t] : t \in Texts }

\* strings.Index and strings.LastIndex of one character: 0 stands for -1,
\* k for the index k - 1.
Index(text, c) ==
    IF \E k \in 1..Len(text) : text[k] = c
    THEN CHOOSE k \in 1..Len(text) :
             text[k] = c /\ \A j \in 1..(k - 1) : text[j] # c
    ELSE 0

LastIndex(text, c) ==
    IF \E k \in 1..Len(text) : text[k] = c
    THEN CHOOSE k \in 1..Len(text) :
             text[k] = c /\ \A j \in (k + 1)..Len(text) : text[j] # c
    ELSE 0

\* The zero value of the anonymous result struct.
ZeroResult == [Learnings |-> NilSlice, Topics |-> NilSlice]

\* json.Unmarshal of a text into the result struct: over these tokens the
\* only JSON values are {} and {"learnings":["l"]}.
Unmarshal(text, v) ==
    IF text = << "{", "}" >> THEN [err |-> FALSE, result |-> v]
    ELSE IF text = << "{", "L", "}" >>
    THEN [err |-> FALSE,
          result |-> [v EXCEPT !.Learnings = Slice(<< "l" >>)]]
    ELSE [err |-> TRUE, result |-> v]

\* &Learning{...} without its time stamp.
MkLearning(pr, ls, ts) ==
    [PRNumber |-> pr.Number, PRTitle |-> pr.Title,
     Learnings |-> ls, Topics |-> ts]

NoLearning == [PRNumber |-> 0, PRTitle |-> "", Learnings |-> NilSlice,
               Topics |-> NilSlice]

ProcessPR_FailsOnBadJSON(pr, resp) ==
    IF resp.err THEN [err |-> TRUE, learning |-> NoLearning]
    ELSE LET text == resp.text
             jsonStart == Index(text, "{")
             jsonEnd == LastIndex(text, "}")
             u == Unmarshal(SubSeq(text, jsonStart, jsonEnd), ZeroResult)
         IN IF resp.cands > 0 /\ jsonStart # 0 /\ jsonEnd # 0
                 /\ jsonEnd > jsonStart
            THEN IF u.err
                 THEN [err |-> TRUE, learning |-> NoLearning]
                 ELSE [err |-> FALSE,
                       learning |->
                           MkLearning(pr, u.result.Learnings, u.result.Topics)]
            ELSE [err |-> FALSE,
                  learning |->
                      MkLearning(pr, ZeroResult.Learnings, ZeroResult.Topics)]

\* Part_000 lines 98-139: the answer of the service made into a Learning.
ProcessPR(pr, resp) ==
    IF resp.err THEN [err |-> TRUE, learning |-> NoLearning]
    ELSE LET text == resp.text
             jsonStart == Index(text, "{")
             jsonEnd == LastIndex(text, "}")
             u == Unmarshal(SubSeq(text, jsonStart, jsonEnd), ZeroResult)
         IN IF resp.cands > 0 /\ jsonStart # 0 /\ jsonEnd # 0
                 /\ jsonEnd > jsonStart
            THEN IF u.err
                 THEN [err |-> FALSE,
                       learning |-> MkLearning(pr, Slice(<< >>), Slice(<< >>))]
                 ELSE [err |-> FALSE,
                       learning |->
                           MkLearning(pr, u.result.Learnings, u.result.Topics)]
            ELSE [err |-> FALSE,
                  learning |->
                      MkLearning(pr, ZeroResult.Learnings, ZeroResult.Topics)]

\* The pull requests sent to the service and the statuses a run has.
SentPRs == { [Number |-> 1, Title |-> "one"], [Number |-> 2, Title |-> "two"] }

GFrame ==
    /\ UNCHANGED << remote, dfiles, lvars, dvars >>
    /\ UNCHANGED << svars, kvars, tvars, mvars, cvars, fvars >>

\* Part_002 lines 95-100: ProcessPR is called; an error is logged and the
\* loop continues.
GProcessPR ==
    /\ gpc = "gemini"
    /\ \E resp \in Responses :
          /\ gResp' = resp
          /\ gRet' = ProcessPR(gPR, resp)
    /\ gpc' = IF gRet'.err THEN "continue" ELSE "save"
    /\ UNCHANGED << gPR, gStatus, gDisk >>
    /\ GFrame

\* Part_002 lines 102-106: SaveLearning writes {n}.json.
GSaveLearningOk ==
    /\ gpc = "save"
    /\ gDisk' = [gDisk EXCEPT !.learning = gRet.learning]
    /\ gpc' = "status"
    /\ UNCHANGED << gPR, gResp, gRet, gStatus >>
    /\ GFrame

\* SaveLearning fails: logged, the loop continues.
GSaveLearningError ==
    /\ gpc = "save"
    /\ gpc' = "continue"
    /\ UNCHANGED << gPR, gResp, gRet, gStatus, gDisk >>
    /\ GFrame

\* Part_002 lines 108-115: the status is advanced and saved; a failed save
\* is logged only.
GSaveStatus ==
    /\ gpc = "status"
    /\ gStatus' = Advance(gStatus, gPR.Number)
    /\ \/ gDisk' = [gDisk EXCEPT !.status = gStatus']
       \/ UNCHANGED gDisk
    /\ gpc' = "next"
    /\ UNCHANGED << gPR, gResp, gRet >>
    /\ GFrame

\* The loop has reached the call of ProcessPR for an eligible pull request.
GInit ==
    /\ remote = [n \in AllNums |-> "none"]
    /\ dfiles = [n \in AllNums |-> NoDir]
    /\ ropen = {}
    /\ LIdle /\ DIdle /\ SIdle /\ KIdle /\ TIdle /\ MIdle /\ CIdle /\ FIdle
    /\ gPR \in SentPRs
    /\ gResp = << >>
    /\ gRet = << >>
    /\ gpc = "gemini"
    /\ gStatus \in { [ZeroStatus EXCEPT !.TotalPRs = 2],
                     [TotalPRs |-> 2, ProcessedPRs |-> 1, LastPR |-> 1] }
    /\ gDisk = [learning |-> NoLearning, status |-> gStatus]

GNext == GProcessPR \/ GSaveLearningOk \/ GSaveLearningError \/ GSaveStatus

SpecExtract == GInit /\ [][GNext]_vars

\* The answer is a text whose JSON object substring, from the first '{' to
\* the last '}', does not parse, or a text without such a substring.
Malformed(resp) ==
    /\ ~resp.err /\ resp.cands > 0
    /\ LET opens == { k \in 1..Len(resp.text) : resp.text[k] = "{" }
           closes == { k \in 1..Len(resp.text) : resp.text[k] = "}" }
           a == CHOOSE k \in opens : \A j \in opens : k <= j
           b == CHOOSE k \in closes : \A j \in closes : k >= j
       IN \/ opens = {}
          \/ closes = {}
          \/ (opens # {} /\ closes # {} /\ b < a)
          \/ /\ opens # {} /\ closes # {} /\ a < b
             /\ SubSeq(resp.text, a, b) \notin
                    { << "{", "}" >>, << "{", "L", "}" >> }

\* C23: for a malformed answer ProcessPR returns no error and a Learning
\* with the number and title of the pull request and no learnings and no
\* topics; the pass then writes that Learning and advances the cursor and
\* the processed count as after any extraction.
C23_MalformedAnswerIsEmptyLearning ==
    [][/\ (gpc = "gemini" /\ gpc' # "gemini" /\ Malformed(gResp')) =>
              /\ gpc' = "save"
              /\ ~gRet'.err
              /\ gRet'.learning.PRNumber = gPR.Number
              /\ gRet'.learning.PRTitle = gPR.Title
              /\ Len(gRet'.learning.Learnings.items) = 0
              /\ Len(gRet'.learning.Topics.items) = 0
       /\ (gpc = "save" /\ gpc' = "status") =>
              gDisk'.learning = gRet.learning
       /\ (gpc = "status" /\ gpc' # "status") =>
              /\ gpc' = "next"
              /\ gStatus'.LastPR = gPR.Number
              /\ gStatus'.ProcessedPRs = gStatus.ProcessedPRs + 1]_vars

\* A text whose braces hold no JSON has been answered, the empty Learning
\* is on disk and the status has advanced past the pull request.
C23_Witness ==
    /\ gpc = "next"
    /\ gResp.text = << "{", "x", "}" >>
    /\ gDisk.learning = MkLearning(gPR, Slice(<< >>), Slice(<< >>))
    /\ gDisk.status.LastPR = gPR.Number


(* ===================== claims on loading a stored PR =================== *)
\* The comments and reviews a stored pull request is to be handled with: a
\* collection whose file is missing or unreadable is empty.
CollectionsOf(n) ==
    [Comments |-> IF dfiles[n].comments = "ok"
                  THEN PRContents[remote[n]].Comments ELSE << >>,
     Reviews  |-> IF dfiles[n].reviews = "ok"
                  THEN PRContents[remote[n]].Reviews ELSE << >>]

\* C24: in the learning pass a pull request without readable pr.json is a
\* failure for that pull request only (it is not sent to the generation
\* service, the status in memory and on disk stays, the loop goes on with
\* the next one), while one with pr.json is handled with the collections of
\* its missing files empty and never reported as a load failure.
C24_OnlyPRRecordIsMandatory ==
    [][(InLoop /\ pc' # "idle" /\ (i' # i \/ pc' # pc)) =>
          IF dfiles[Cur].pr # "ok"
          THEN /\ outcome' = "load_error"
               /\ sent' = sent
               /\ status' = status /\ diskStatus' = diskStatus
               /\ learnings' = learnings
               /\ pc' = "loop" /\ i' = i + 1 /\ prNumbers' = prNumbers
          ELSE LET d == CollectionsOf(Cur)
                   empty == d.Comments = << >> /\ d.Reviews = << >>
                   hunk == \E k \in 1..Len(d.Comments) :
                               d.Comments[k].diff_hunk # ""
               IN /\ outcome' # "load_error"
                  /\ (outcome' = "no_reviews") <=> empty
                  /\ (outcome' = "no_hunk") <=> (~empty /\ ~hunk)
                  /\ (sent' = Append(sent, Cur)) <=> hunk]_vars

\* A pull request whose reviews.json is missing was sent to the service,
\* and a later one of the same run without pr.json was passed over.
C24_Witness ==
    /\ pc = "loop" /\ outcome = "load_error"
    /\ \E n \in Range(sent) : dfiles[n].reviews # "ok"
    /\ dfiles[prNumbers[i - 1]].pr # "ok"


(* ===================== the learning pass over any store ================ *)
\* What the store may hold for one pull request: nothing, a directory
\* without readable files, or all files of a pull request of some kind.
StoreOptions ==
    {[dir |-> FALSE, kind |-> "none", k |-> 0],
     [dir |-> TRUE, kind |-> "none", k |-> 0]}
    \cup { [dir |-> TRUE, kind |-> kind, k |-> 4] : kind \in Kinds }

\* A learning run is started over any store and any persisted status: the
\* pulls directory holds any set of completely saved pull requests, and
\* status.json is absent or carries any cursor.
AInit ==
    /\ \E cfg \in [PRNums -> StoreOptions] :
          /\ remote = [n \in AllNums |->
                          IF n \in PRNums THEN cfg[n].kind ELSE "none"]
          /\ dfiles = [n \in AllNums |->
                          IF n \in PRNums /\ cfg[n].dir
                          THEN FilesAfterSave(cfg[n].k) ELSE NoDir]
    /\ ropen = {}
    /\ learnings = {}
    /\ diskStatus \in {NoFile} \cup
           { [exists |-> TRUE,
              st |-> [TotalPRs |-> 0, ProcessedPRs |-> 1, LastPR |-> c]] :
             c \in 0..MaxPR }
    /\ status = ZeroStatus
    /\ prNumbers = << >>
    /\ i = 1
    /\ pc = "idle"
    /\ startCursor = 0
    /\ loaded = << >>
    /\ sent = << >>
    /\ outcome = "-"
    /\ result = "none"
    /\ rerun = FALSE
    /\ faults = FALSE
    /\ DIdle
    /\ XIdle

ANext ==
    \/ StartRun
    \/ LoadError
    \/ SkipNoReviews
    \/ SkipNoHunk
    \/ GeminiError
    \/ SaveLearningError
    \/ SaveLearningOk
    \/ SaveStatusOk
    \/ SaveStatusError
    \/ FinishRun
    \/ Interrupt

SpecAnyStore == AInit /\ [][ANext]_vars

\* C25: ProcessAllPRs never ends in a runtime panic, whatever the persisted
\* status and the contents of the store are.
C25_NoPanic == result # "panic"


(* ===================== repeated learning runs ========================== *)
\* The learning pass is run again and again: a run that has started goes
\* on to its end, and process-prs is started again after it.
\* The first run starts over any store without status.json.
RInit == AInit /\ diskStatus = NoFile

SpecRepeated == RInit /\ [][ANext]_vars /\ WF_vars(ANext)

\* A step in which the generation call, the write of a Learning or the
\* write of the status fails, or the run is interrupted.
FailureStep ==
    GeminiError \/ SaveLearningError \/ SaveStatusError \/ Interrupt

\* Every stored pull request that is eligible for extraction has its
\* Learning on disk.
AllLearned == \A n \in Stored : ReachesGemini(n) => n \in learnings

\* C26: a stored eligible pull request whose extraction failed is attempted
\* again by a later run: when process-prs is run again and again and the
\* failures stop, every eligible stored pull request ends up with a Learning.
C26_FailedPRIsRetried ==
    ([]<><<StartRun>>_vars /\ <>[][~FailureStep]_vars) => <>[]AllLearned


(* ===================== the persisted counters ========================== *)
\* C27: between runs of the learning pass that no failed write of the
\* status and no interruption has disturbed, the persisted processed count
\* is the number of pull requests with a Learning on disk, and it does not
\* exceed the persisted total.
C27_ProcessedCountsLearnings ==
    (pc = "idle" /\ ~faults) =>
        LET st == LoadProcessingStatus(diskStatus)
        IN /\ st.ProcessedPRs = Cardinality(learnings)
           /\ st.ProcessedPRs <= st.TotalPRs


(* ===================== query: the formatted output ===================== *)
\* The output formats: "json", "csv", and anything else for plain text.
Formats == {"json", "csv", "stdout"}

\* The orders in which `range` may visit the keys of a map.
RECURSIVE RangeOrders(_)
RangeOrders(S) ==
    IF S = {} THEN { << >> }
    ELSE UNION { { << m >> \o r : r \in RangeOrders(S \ {m}) } : m \in S }

\* sort.Slice on one input: the arrangement it makes of it, the same every
\* time it is given that input.
SortSlice(S) == CHOOSE r \in SortedArrangements(S) : TRUE

\* formatJSON and formatCSV write the rows in their order.
formatJSON(results) == { [format |-> "json", rows |-> results] }

formatCSV(results) == { [format |-> "csv", rows |-> results] }

\* prGroups[n]: the rows of one pull request, in their order.
GroupOf(results, n) ==
    LET ks == { k \in 1..Len(results) : results[k].PRNumber = n }
        lo == CHOOSE k \in ks : \A j \in ks : k <= j
        hi == CHOOSE k \in ks : \A j \in ks : k >= j
    IN SubSeq(results, lo, hi)

\* formatStdout: the header, the statistics of the requested authors in the
\* order `range authors` visits them, and the groups in the order
\* `range prGroups` visits them.
formatStdout(results, metadata, authors) ==
    LET prs == { results[k].PRNumber : k \in 1..Len(results) }
    IN { [format |-> "stdout",
          repository |-> << metadata.Owner, metadata.Repository >>,
          total |-> metadata.TotalPRs,
          stats |-> [k \in 1..Len(ao) |->
                        << ao[k],
                           IF ao[k] \in DOMAIN metadata.AuthorStats
                           THEN metadata.AuthorStats[ao[k]] ELSE 0 >>],
          found |-> << Len(results), Cardinality(prs) >>,
          groups |-> [k \in 1..Len(go) |->
                         [pr |-> go[k], rows |-> GroupOf(results, go[k])]]] :
         ao \in RangeOrders(authors), go \in RangeOrders(prs) }

\* FilterByAuthors with metadata.json readable: collect, sort, format.
FQuery(A, format) ==
    /\ dpc = "idle"
    /\ dmeta.state = "ok"
    /\ qauthors' = A
    /\ rows' = SortSlice(Collect(A))
    /\ qresult' = "ok"
    /\ fFormat' = format
    /\ fOut' \in CASE format = "json" -> formatJSON(rows')
                   [] format = "csv" -> formatCSV(rows')
                   [] OTHER -> formatStdout(rows', dmeta.meta, A)
    /\ UNCHANGED << remote, dfiles, ropen, dmeta, dmem, dclient, allPRs,
                    idx, dpc, doutcome, dresult, druns, clean >>
    /\ UNCHANGED << lvars, svars, kvars, tvars, mvars, cvars, gvars >>

\* What the store holds for one pull request after the downloads: nothing,
\* all files, or all but reviews.json.
QueryStoreOptions == {0, 3, 4}

\* A store left by download runs, with its metadata.json.
FInit ==
    /\ remote = [n \in AllNums |-> KindOf(n)]
    /\ ropen = {}
    /\ dfiles \in { [n \in AllNums |->
                        IF cfg[n] = 0 THEN NoDir
                        ELSE savePRData(NoDir, cfg[n], FALSE)] :
                    cfg \in [AllNums -> QueryStoreOptions] }
    /\ LIdle
    /\ dmeta = [state |-> "ok",
                meta |-> [New("perbu", "pr-analysis") EXCEPT
                            !.TotalPRs = Cardinality(AllNums),
                            !.AuthorStats =
                                [a \in Logins |->
                                    SumContribution(a,
                                        { n \in AllNums :
                                              dfiles[n].reviews = "ok" })]]]
    /\ dmem = NewMetadata
    /\ dclient = NoClient
    /\ allPRs = << >>
    /\ idx = 1
    /\ dpc = "idle"
    /\ doutcome = "-"
    /\ dresult = "nil"
    /\ druns = 1
    /\ clean = FALSE
    /\ qauthors = {}
    /\ rows = << >>
    /\ qresult = "none"
    /\ XIdle

FNext == \E A \in QuerySets, format \in Formats : FQuery(A, format)

SpecQuery == FInit /\ [][FNext]_vars

\* C28: a query repeated with the same authors and the same format over the
\* unchanged store returns the same output, in every format, and the plain
\* text lists the groups in ascending order of PR number.
C28_DeterministicOutput ==
    [][/\ (qresult = "ok" /\ qresult' = "ok" /\ qauthors' = qauthors
              /\ fFormat' = fFormat /\ dfiles' = dfiles /\ dmeta' = dmeta)
          => fOut' = fOut
       /\ (qresult' = "ok" /\ fFormat' = "stdout") =>
              \A j \in 1..Len(fOut'.groups) : \A k \in (j + 1)..Len(fOut'.groups) :
                  fOut'.groups[j].pr < fOut'.groups[k].pr]_vars

====
